---- MODULE Spec2Model ----
(***************************************************************************)
(* The request-processing pipeline of the framework: Response,              *)
(* MiddlewareChain.execute, Application._handleRequest, ContextManager and  *)
(* MemoryStore.                                                             *)
(*                                                                          *)
(* JavaScript runs one task at a time, and a task keeps the thread until it *)
(* reaches an await.  `running` names the request whose task holds the      *)
(* thread (0: none); every step of a request needs the thread, and every    *)
(* await gives it up.                                                       *)
(***************************************************************************)
EXTENDS Integers, Sequences, FiniteSets, TLC

\* ------------------------------------------------------------------ bounds
MaxMw == 2           \* middlewares registered on one chain
MaxSteps == 2        \* operations one middleware or handler invocation performs
MaxCalls == 4        \* method calls made on one Response object
MaxTime == 3         \* the clock (Date.now()) stops here
WindowMs == 1        \* windowMs handed to increment
MaxOps == 3          \* operations the function handed to context.run performs
MaxRoutes == 2       \* routes registered on one Router
MaxCompose == 3      \* middlewares handed to one compose call
MaxChunks == 3       \* chunks a client sends as one request body

Reqs == {1, 2}       \* requests (tasks) that may be in flight together
AppReqs == {1}       \* requests the application dispatches
Errs == {"e1", "e2"} \* Error objects application code throws or passes to next
NoErr == "none"      \* `undefined` where an Error is expected
Absent == "absent"   \* `undefined` elsewhere

\* Values handed to a Response: strings, objects, undefined.  who and idx name
\* the code that made the value.
Str(t) == [who |-> "caller", idx |-> 0, text |-> t, str |-> TRUE]
Obj(t) == [who |-> "caller", idx |-> 0, text |-> t, str |-> FALSE]
Undefined == [who |-> "nobody", idx |-> 0, text |-> "undefined", str |-> FALSE]
Datas == {Str("d1"), Str("d2")}
Objects == {Obj("o1")}

\* What goes on the wire: a value and how it was turned into bytes.
Utf8(d) == [enc |-> "utf8", data |-> d]

\* HttpStatus (utils/types.ts)
OK == 200
NO_CONTENT == 204
FOUND == 302
BAD_REQUEST == 400
NOT_FOUND == 404
METHOD_NOT_ALLOWED == 405
INTERNAL_SERVER_ERROR == 500

\* The HttpStatus object: its keys and their numbers.
HttpStatus ==
  [OK |-> 200, CREATED |-> 201, NO_CONTENT |-> 204, MOVED_PERMANENTLY |-> 301,
   FOUND |-> 302, NOT_MODIFIED |-> 304, BAD_REQUEST |-> 400, UNAUTHORIZED |-> 401,
   FORBIDDEN |-> 403, NOT_FOUND |-> 404, METHOD_NOT_ALLOWED |-> 405, CONFLICT |-> 409,
   UNPROCESSABLE_ENTITY |-> 422, TOO_MANY_REQUESTS |-> 429,
   INTERNAL_SERVER_ERROR |-> 500, NOT_IMPLEMENTED |-> 501, BAD_GATEWAY |-> 502,
   SERVICE_UNAVAILABLE |-> 503]

\* obj.key: the value of the property, or undefined where obj has no such key
Member(obj, key) ==
  IF key \in DOMAIN obj THEN [defined |-> TRUE, value |-> obj[key]]
  ELSE [defined |-> FALSE, value |-> 0]

VARIABLES
  running,       \* request whose task holds the thread, 0 when none does
  middlewares,   \* MiddlewareChain.middlewares of the chain under execution
  pc,            \* per request: where its task stands
  frame,         \* per request: the locals of execute (index, error, currentIndex)
  log,           \* per request: one record per middleware invocation, in order
  res,           \* per request: its Response object
  resp,          \* a Response object driven directly through its public methods
  respCalls,     \* number of method calls made on resp
  respAfter,     \* number of them made when resp was already finished
  errCall,       \* the error handler just called on resp, its error, resp before
  now,           \* Date.now()
  store,         \* MemoryStore.store: key -> RateLimitInfo
  locks,         \* MemoryStore.locks: the keys that hold a lock promise
  variant,       \* which MemoryStore class the store is an instance of
  limiter,       \* one rateLimit middleware: its max, and what it did with each request
  call,          \* per caller of increment: its call, what it returned, what was read
  requestCounter,\* the module's requestCounter (generateFastId)
  stores,        \* the RequestStore objects made by context.run
  current,       \* per task: the store AsyncLocalStorage binds to its continuations
  task,          \* per task: where the function handed to context.run stands
  obs,           \* per task: what its last reads of the context returned
  options,       \* Application._options, as far as dispatch depends on them
  routes,        \* Router.routes: the routes registered, in order
  matched,       \* the last call made on the router and what it returned
  given,         \* the middlewares m1..mn handed to compose, or to use one by one
  trial,         \* one execute of a chain built from them, and its activations
  direct,        \* what the execute of the chain holding m1..mn directly came to
  parse          \* one Request, its raw stream and the promise of its parseBody

pipeVars == <<running, middlewares, pc, frame, log, res>>
respVars == <<resp, respCalls, respAfter, errCall>>
storeVars == <<now, store, locks, call, variant, limiter>>
ctxVars == <<requestCounter, stores, current, task, obs>>
appVars == <<options>>
routerVars == <<routes, matched>>
composeVars == <<given, trial, direct>>
bodyVars == <<parse>>
vars == <<pipeVars, respVars, storeVars, ctxVars, appVars, routerVars, composeVars, bodyVars>>

\* How a promise stands: pending, resolved, or rejected with an error.
Pending == [kind |-> "pending", err |-> NoErr]
Resolved == [kind |-> "resolved", err |-> NoErr]
Rejected(e) == [kind |-> "rejected", err |-> e]

\* ------------------------------------------------------------------ Response
HeaderNames == {"content-type", "location", "allow"}
NoHeaders == [h \in HeaderNames |-> Absent]

\* The raw ServerResponse, as the repository's mock of it behaves.
NewRaw ==
  [statusCode |-> OK, headers |-> NoHeaders, headersSent |-> FALSE,
   writableEnded |-> FALSE, sent |-> <<>>]

\* raw.write(chunk)
RawWrite(raw, chunk) ==
  [raw EXCEPT !.headersSent = TRUE, !.sent = Append(@, chunk)]

\* raw.end(data): `if (data)` skips undefined and the empty string
RawEnd(raw, data) ==
  [raw EXCEPT !.headersSent = TRUE, !.writableEnded = TRUE,
              !.sent = IF data \in {Utf8(Undefined), Utf8(Str(""))} THEN @
                       ELSE Append(@, data)]

\* new Response(rawRes)
NewResponse ==
  [statusCode |-> OK, headers |-> NoHeaders, body |-> Undefined,
   p_headersSent |-> FALSE, p_finished |-> FALSE, raw |-> NewRaw]

\* get headersSent()
HeadersSentExclusive(r) == r.p_headersSent /\ ~r.p_finished
HeadersSent(r) == r.p_headersSent \/ r.raw.headersSent

\* get finished()
Finished(r) == r.p_finished \/ r.raw.writableEnded

\* status(code)
StatusUnguarded(r, code) == [r EXCEPT !.statusCode = code]
Status(r, code) == IF r.p_headersSent THEN r ELSE [r EXCEPT !.statusCode = code]

\* header(name, value)
Header(r, name, value) ==
  IF r.p_headersSent THEN r ELSE [r EXCEPT !.headers[name] = value]

\* removeHeader(name)
RemoveHeader(r, name) == [r EXCEPT !.headers[name] = Absent]

\* type(contentType)
Type(r, contentType) == Header(r, "content-type", contentType)

\* _writeHeaders()
WriteHeaders(r) ==
  IF r.p_headersSent THEN r
  ELSE [r EXCEPT !.raw.statusCode = r.statusCode,
                 !.raw.headers = [h \in HeaderNames |->
                     IF r.headers[h] # Absent THEN r.headers[h] ELSE @[h]],
                 !.p_headersSent = TRUE]

\* _send(data)
SendData(r, data) ==
  IF r.p_finished THEN r
  ELSE LET w == WriteHeaders(r)
       IN [w EXCEPT !.raw = RawEnd(w.raw, data), !.p_finished = TRUE]

\* stringify(data, {escapeHtml: true}): the JSON text of data
Stringify(data) == [enc |-> "json", data |-> data]

\* json(data)
JsonUnguarded(r, data) ==
  LET w == WriteHeaders([Type(r, "application/json; charset=utf-8") EXCEPT !.body = data])
  IN [w EXCEPT !.raw = RawEnd(w.raw, Stringify(data)), !.p_finished = TRUE]
Json(r, data) ==
  IF r.p_finished THEN r
  ELSE SendData([Type(r, "application/json; charset=utf-8") EXCEPT !.body = data], Stringify(data))

\* text(data)
Text(r, data) ==
  IF r.p_finished THEN r
  ELSE SendData([Type(r, "text/plain; charset=utf-8") EXCEPT !.body = data], Utf8(data))

\* html(data)
Html(r, data) ==
  IF r.p_finished THEN r
  ELSE SendData([Type(r, "text/html; charset=utf-8") EXCEPT !.body = data], Utf8(data))

\* send(data) for undefined, a string, or an object
Send(r, data) ==
  IF r.p_finished THEN r
  ELSE IF data = Undefined THEN SendData(Status(r, NO_CONTENT), Utf8(Str("")))
  ELSE IF data.str
  THEN LET t == IF r.headers["content-type"] = Absent
                THEN Type(r, "text/html; charset=utf-8") ELSE r
       IN SendData([t EXCEPT !.body = data], Utf8(data))
  ELSE Json(r, data)

\* redirect(url, statusCode)
Redirect(r, url, statusCode) ==
  IF r.p_finished THEN r
  ELSE SendData(Type(Header(Status(r, statusCode), "location", url),
                     "text/html; charset=utf-8"),
                [enc |-> "Redirecting to", data |-> Str(url)])

\* write(chunk)
Write(r, chunk) ==
  IF r.p_finished THEN r
  ELSE LET w == IF ~r.p_headersSent THEN WriteHeaders(r) ELSE r
       IN [w EXCEPT !.raw = RawWrite(w.raw, Utf8(chunk))]

\* end(data)
End(r, data) ==
  IF r.p_finished THEN r
  ELSE LET w == IF ~r.p_headersSent THEN WriteHeaders(r) ELSE r
       IN [w EXCEPT !.raw = RawEnd(w.raw, Utf8(data)), !.p_finished = TRUE]

\* No error handler was called on resp just now.
NoErrCall == [handler |-> "none", error |-> NoErr, before |-> NewResponse]

\* One call of a public method on the Response object resp.
Codes == {OK, NOT_FOUND, FOUND}

RespCall(next) ==
  /\ respCalls < MaxCalls
  /\ resp' = next
  /\ respCalls' = respCalls + 1
  /\ respAfter' = respAfter + (IF Finished(resp) THEN 1 ELSE 0)
  /\ errCall' = NoErrCall
  /\ UNCHANGED <<pipeVars, storeVars, ctxVars, appVars, routerVars, composeVars, bodyVars>>

CallStatus == \E c \in Codes : RespCall(Status(resp, c))
CallHeader == \E h \in {"allow", "content-type"} : RespCall(Header(resp, h, "v"))
CallRemoveHeader == \E h \in HeaderNames : RespCall(RemoveHeader(resp, h))
CallJson == \E d \in Datas : RespCall(Json(resp, d))
CallText == \E d \in Datas : RespCall(Text(resp, d))
CallHtml == \E d \in Datas : RespCall(Html(resp, d))
CallSend == \E d \in Datas \cup Objects \cup {Undefined} : RespCall(Send(resp, d))
CallRedirect == RespCall(Redirect(resp, "/u", FOUND))
CallWrite == \E d \in Datas : RespCall(Write(resp, d))
CallEnd == \E d \in Datas \cup {Undefined} : RespCall(End(resp, d))


\* ---------------------------------------------------- MiddlewareChain.execute

\* No route matched (yet).
NoRoute == [middleware |-> 0, schema |-> FALSE]

\* router.match not yet asked: no answer, no list of allowed methods.
NoAllowed == [given |-> FALSE, list |-> <<>>]
NoAnswer == [status |-> "none", route |-> NoRoute, allowedMethods |-> NoAllowed]

\* The locals of one request's task.  mode tells who called execute: a caller
\* of the chain itself ("direct") or Application._handleRequest ("app").
\* match is what router.match answered; schema and invalid are the parts the
\* route's schema has and the parts of the request that do not parse, kept
\* when they meet; raised is the error the catch block got, handled the error
\* the error handler was called with, settled the promise of _handleRequest.
NewFrame ==
  [mode |-> "direct", chain |-> "global", index |-> 0, error |-> NoErr,
   currentIndex |-> 0, callee |-> "mw", steps |-> 0, outcome |-> Pending,
   result |-> Pending, method |-> "GET", route |-> NoRoute, caught |-> NoErr,
   fallback |-> FALSE, match |-> NoAnswer, schema |-> {}, invalid |-> {},
   raised |-> NoErr, handled |-> NoErr, settled |-> Pending]

\* One invocation of a middleware, of the route's handler or of the error
\* handler, as the log records it.
Invocation(who, i) ==
  [who |-> who, idx |-> i, calls |-> 0, errs |-> {}, waited |-> FALSE,
   settled |-> FALSE, sends |-> 0]

LastOf(s) == s[Len(s)]
UpdLast(s, rec) == [s EXCEPT ![Len(s)] = rec]

\* this.middlewares.length of the chain a frame executes: the application's
\* global chain, or the chain built from the matched route's middleware
ChainLength(f) == IF f.chain = "route" THEN f.route.middleware ELSE Len(middlewares)

\* `while (index < this.middlewares.length && !error)`
LoopConditionShort(idx, err, len) == idx < len - 1 /\ err = NoErr
LoopCondition(idx, err, len) == idx < len /\ err = NoErr

\* `if (error) throw error;`, else the async function returns
Settle(err) == IF err # NoErr THEN Rejected(err) ELSE Resolved

\* `next()`: index++, in the frame of the execution that made this closure
SharedIndex(frames, r) ==
  [q \in DOMAIN frames |-> [frames[q] EXCEPT !.index = frames[r].index + 1]]
NextCalled(frames, r) == [frames EXCEPT ![r].index = @ + 1]

\* `next(err)`: error = err
NextCalledWith(frames, r, e) == [frames EXCEPT ![r].error = e]

\* `if (index === currentIndex) break;`
NeverBreak(idx, cur) == FALSE
NextNotCalled(idx, cur) == idx = cur

\* `catch (err) { error = err; break; }`
CatchSwallow(f, e) == f
Catch(f, e) == [f EXCEPT !.error = e]

\* The head of the while loop for request r whose locals are f: either the
\* middleware at f.index is invoked (it runs on the caller's thread until its
\* first await) or the loop is left and execute settles.
LoopHead(r, f) ==
  IF LoopCondition(f.index, f.error, ChainLength(f))
  THEN /\ frame' = [frame EXCEPT ![r] =
                      [f EXCEPT !.currentIndex = f.index, !.callee = "mw", !.steps = 0]]
       /\ pc' = [pc EXCEPT ![r] = "run"]
       /\ log' = [log EXCEPT ![r] = Append(@, Invocation(f.chain, f.index))]
       /\ running' = r
  ELSE /\ frame' = [frame EXCEPT ![r] = [f EXCEPT !.result = Settle(f.error)]]
       /\ pc' = [pc EXCEPT ![r] = IF f.mode = "direct" THEN "done" ELSE "chainSettled"]
       /\ log' = log
       /\ running' = 0

\* The loop is left by break.
LoopBreak(r, f) ==
  /\ frame' = [frame EXCEPT ![r] = [f EXCEPT !.result = Settle(f.error)]]
  /\ pc' = [pc EXCEPT ![r] = IF f.mode = "direct" THEN "done" ELSE "chainSettled"]
  /\ log' = log
  /\ running' = 0

\* execute(req, res): `let index = 0; let error;` and the first loop test
StartExecute(r, f, chain) ==
  LoopHead(r, [f EXCEPT !.chain = chain, !.index = 0, !.error = NoErr,
                        !.outcome = Pending, !.result = Pending])

\* MiddlewareChain.use, during setup: before any request is handled.
Use ==
  /\ running = 0
  /\ \A r \in Reqs : pc[r] = "idle"
  /\ Len(middlewares) < MaxMw
  /\ middlewares' = Append(middlewares, Len(middlewares) + 1)
  /\ UNCHANGED <<running, pc, frame, log, res, respVars, storeVars, ctxVars, appVars, routerVars, composeVars, bodyVars>>

\* A caller runs chain.execute(req, res) on its own Request and Response.
Execute(r) ==
  /\ running = 0
  /\ pc[r] = "idle"
  /\ StartExecute(r, [frame[r] EXCEPT !.mode = "direct"], "global")
  /\ UNCHANGED <<middlewares, res, respVars, storeVars, ctxVars, appVars, routerVars, composeVars, bodyVars>>

\* ------------------------------ what a middleware, handler or error handler does

Active(r) == running = r /\ pc[r] = "run" /\ frame[r].steps < MaxSteps
Step(frames, r) == [frames EXCEPT ![r].steps = @ + 1]

\* The running middleware calls next().
CallNext(r) ==
  /\ Active(r)
  /\ frame[r].callee = "mw"
  /\ frame' = Step(NextCalled(frame, r), r)
  /\ log' = [log EXCEPT ![r] = UpdLast(@, [LastOf(@) EXCEPT !.calls = @ + 1])]
  /\ UNCHANGED <<running, middlewares, pc, res, respVars, storeVars, ctxVars, appVars, routerVars, composeVars, bodyVars>>

\* The running middleware calls next(err).
CallNextErr(r, e) ==
  /\ Active(r)
  /\ frame[r].callee = "mw"
  /\ frame' = Step(NextCalledWith(frame, r, e), r)
  /\ log' = [log EXCEPT ![r] = UpdLast(@, [LastOf(@) EXCEPT !.errs = @ \cup {e}])]
  /\ UNCHANGED <<running, middlewares, pc, res, respVars, storeVars, ctxVars, appVars, routerVars, composeVars, bodyVars>>

\* What the code running for r sends: it names its sender.
Payload(r) ==
  [who |-> LastOf(log[r]).who, idx |-> LastOf(log[r]).idx, text |-> "o1", str |-> FALSE]

\* The running code sends a full response with res.json(...).
SendJson(r) ==
  /\ Active(r)
  /\ res' = [res EXCEPT ![r] = Json(@, Payload(r))]
  /\ frame' = Step(frame, r)
  /\ log' = [log EXCEPT ![r] = UpdLast(@, [LastOf(@) EXCEPT !.sends = @ + 1])]
  /\ UNCHANGED <<running, middlewares, pc, respVars, storeVars, ctxVars, appVars, routerVars, composeVars, bodyVars>>

\* The running code awaits a timer or I/O: it gives up the thread.
Suspend(r) ==
  /\ Active(r)
  /\ pc' = [pc EXCEPT ![r] = "wait"]
  /\ frame' = Step(frame, r)
  /\ log' = [log EXCEPT ![r] = UpdLast(@,
               [LastOf(@) EXCEPT !.waited = @ \/ (LastOf(log[r]).calls = 0
                                                   /\ LastOf(log[r]).errs = {})])]
  /\ running' = 0
  /\ UNCHANGED <<middlewares, res, respVars, storeVars, ctxVars, appVars, routerVars, composeVars, bodyVars>>

\* The timer or I/O completes and the code goes on.
Resume(r) ==
  /\ running = 0
  /\ pc[r] = "wait"
  /\ pc' = [pc EXCEPT ![r] = "run"]
  /\ running' = r
  /\ UNCHANGED <<middlewares, frame, log, res, respVars, storeVars, ctxVars, appVars, routerVars, composeVars, bodyVars>>

\* The running code returns (its promise resolves); its caller's await resumes later.
Return(r) ==
  /\ running = r
  /\ pc[r] = "run"
  /\ pc' = [pc EXCEPT ![r] = "awaited"]
  /\ frame' = [frame EXCEPT ![r].outcome = Resolved, ![r].steps = 0]
  /\ log' = [log EXCEPT ![r] = UpdLast(@, [LastOf(@) EXCEPT !.settled = TRUE])]
  /\ running' = 0
  /\ UNCHANGED <<middlewares, res, respVars, storeVars, ctxVars, appVars, routerVars, composeVars, bodyVars>>

\* The running code throws e (or its promise rejects with e).
Throw(r, e) ==
  /\ running = r
  /\ pc[r] = "run"
  /\ pc' = [pc EXCEPT ![r] = "awaited"]
  /\ frame' = [frame EXCEPT ![r].outcome = Rejected(e), ![r].steps = 0]
  /\ log' = [log EXCEPT ![r] = UpdLast(@,
               [LastOf(@) EXCEPT !.settled = TRUE, !.errs = @ \cup {e}])]
  /\ running' = 0
  /\ UNCHANGED <<middlewares, res, respVars, storeVars, ctxVars, appVars, routerVars, composeVars, bodyVars>>

\* `await middleware(req, res, next)`: execute goes on once the middleware has settled
SettledOrSuspended(r) == pc[r] \in {"awaited", "wait"}
MiddlewareSettled(r) == pc[r] = "awaited"

\* execute resumes after `await middleware(req, res, next)`: the catch block, or
\* the test whether next() was called and then the loop test again.
AfterMiddleware(r) ==
  /\ running = 0
  /\ MiddlewareSettled(r)
  /\ frame[r].callee = "mw"
  /\ LET f == [frame[r] EXCEPT !.outcome = Pending]
     IN IF frame[r].outcome.kind = "rejected"
        THEN LoopBreak(r, Catch(f, frame[r].outcome.err))
        ELSE IF NextNotCalled(f.index, f.currentIndex)
        THEN LoopBreak(r, f)
        ELSE LoopHead(r, f)
  /\ UNCHANGED <<middlewares, res, respVars, storeVars, ctxVars, appVars, routerVars, composeVars, bodyVars>>

\* --------------------------------------------------------------- MemoryStore
Keys == {"k1", "k2"}
Callers == {1, 2, 3}
\* The two MemoryStore classes of rate-limit.ts: the one that takes a per-key
\* lock and returns a copy, and the one that updates the stored record in place.
Variants == {"locked", "simple"}
NoRecord == [count |-> 0, resetTime |-> -1]   \* `undefined` from store.get(key)
NoCall == [pc |-> "idle", key |-> "k1", ret |-> [live |-> FALSE, val |-> NoRecord],
           seen |-> NoRecord]

\* increment: the record stored for a hit at time t on the record found. Both
\* classes store the same value; the simple one does `record.count++` on the
\* object the map already holds.
NextRecordNoExpiry(record, t, windowMs) ==
  IF record = NoRecord
  THEN [count |-> 1, resetTime |-> t + windowMs]
  ELSE [count |-> record.count + 1, resetTime |-> record.resetTime]
NextRecord(record, t, windowMs) ==
  IF record = NoRecord \/ t > record.resetTime
  THEN [count |-> 1, resetTime |-> t + windowMs]
  ELSE [count |-> record.count + 1, resetTime |-> record.resetTime]

\* `return { ...record }` gives the caller a copy; `return record` gives it the
\* object the map holds.
ReturnValue(v, record) == [live |-> v = "simple", val |-> record]

\* The callers that hold the object the map holds for key: a record object of a
\* key is identified by its resetTime, which every new object of the key raises.
Aliases(calls, key, record) ==
  {d \in Callers : /\ calls[d].ret.live
                   /\ calls[d].key = key
                   /\ calls[d].ret.val.resetTime = record.resetTime}

\* `finally { this.locks.delete(key); releaseResolver() }`: the lock table after
\* the holder of key's lock leaves increment.
ReleaseForgotten(held, key) == held
Release(held, key) == held \ {key}

\* increment(key, windowMs), from the call (or from the end of a wait for the
\* key's lock) to its next await or its return. Neither class awaits between
\* reading and writing the record; the locked one sets and deletes the lock
\* around it.
Increment(c, key) ==
  /\ call[c].pc \in {"idle", "waitLock"}
  /\ call[c].pc = "waitLock" => (call[c].key = key /\ key \notin locks)
  /\ IF variant = "locked" /\ key \in locks
     THEN /\ call' = [call EXCEPT ![c].pc = "waitLock", ![c].key = key]
          /\ UNCHANGED <<store, locks, appVars, routerVars, composeVars, bodyVars>>
     ELSE LET locked == IF variant = "locked" THEN locks \cup {key} ELSE locks
              record == NextRecord(store[key], now, WindowMs)
              shared == Aliases(call, key, record)
          IN /\ store' = [store EXCEPT ![key] = record]
             /\ call' = [d \in Callers |->
                           IF d = c
                           THEN [call[d] EXCEPT !.pc = "returned", !.key = key,
                                                !.ret = ReturnValue(variant, record)]
                           ELSE IF d \in shared
                           THEN [call[d] EXCEPT !.ret.val = record]
                           ELSE call[d]]
             /\ locks' = Release(locked, key)
  /\ UNCHANGED <<now, variant, limiter, pipeVars, respVars, ctxVars, appVars, routerVars, composeVars, bodyVars>>

\* The caller's `await store.increment(...)` resumes and reads count and resetTime.
Observe(c) ==
  /\ call[c].pc = "returned"
  /\ call' = [call EXCEPT ![c].pc = "read", ![c].seen = call[c].ret.val]
  /\ UNCHANGED <<now, store, locks, variant, limiter, pipeVars, respVars, ctxVars, appVars, routerVars, composeVars, bodyVars>>

\* Time passes.
Tick ==
  /\ now < MaxTime
  /\ now' = now + 1
  /\ UNCHANGED <<store, locks, call, variant, limiter, pipeVars, respVars, ctxVars, appVars, routerVars, composeVars, bodyVars>>

\* The constructor's setInterval callback: expired records are deleted.
Cleanup ==
  /\ store' = [k \in Keys |-> IF store[k] # NoRecord /\ now > store[k].resetTime
                              THEN NoRecord ELSE store[k]]
  /\ UNCHANGED <<now, locks, call, variant, limiter, pipeVars, respVars, ctxVars, appVars, routerVars, composeVars, bodyVars>>

\* ---------------------------------------------------------------- rateLimit
\* What the middleware did with a request: nothing yet, passed it on (next()),
\* or threw the HttpError that its catch hands to next(error).
NoVerdict ==
  [kind |-> "none", counted |-> FALSE, at |-> 0, remaining |-> 0, reset |-> 0,
   status |-> 0, retryAfter |-> [set |-> FALSE, value |-> 0]]
NoLimiter == [made |-> FALSE, max |-> 0, verdict |-> [c \in Callers |-> NoVerdict]]
Maxes == {1, 2}

\* Math.ceil(a / b) for b > 0
Ceil(a, b) == IF a >= 0 THEN (a + b - 1) \div b ELSE -((-a) \div b)
\* Math.max(0, n)
AtLeastZero(n) == IF n > 0 THEN n ELSE 0

\* `if (count > max)`
OverMaxInclusive(count, max) == count >= max
OverMax(count, max) == count > max

\* rateLimit({ max, windowMs: WindowMs, store })
RateLimit(max) ==
  /\ ~limiter.made
  /\ limiter' = [NoLimiter EXCEPT !.made = TRUE, !.max = max]
  /\ UNCHANGED <<now, store, locks, call, variant, pipeVars, respVars, ctxVars, appVars, routerVars, composeVars, bodyVars>>

\* `if (skip?.(req)) return next();`
Skip(c) ==
  /\ limiter.made
  /\ call[c].pc = "idle"
  /\ call' = [call EXCEPT ![c].pc = "skipped"]
  /\ limiter' = [limiter EXCEPT !.verdict[c] = [NoVerdict EXCEPT !.kind = "passed", !.at = now]]
  /\ UNCHANGED <<now, store, locks, variant, pipeVars, respVars, ctxVars, appVars, routerVars, composeVars, bodyVars>>

\* The middleware goes on after `await store.increment(key, windowMs)`: it
\* reads count and resetTime, takes Date.now(), sets the headers, and calls
\* next() or throws HttpError(statusCode, message).
Limit(c) ==
  /\ limiter.made
  /\ call[c].pc = "returned"
  /\ LET count == call[c].ret.val.count
         resetTime == call[c].ret.val.resetTime
         resetTimeSeconds == Ceil(resetTime - now, 1000)
         v == [NoVerdict EXCEPT !.counted = TRUE, !.at = now,
                                !.remaining = AtLeastZero(limiter.max - count),
                                !.reset = resetTimeSeconds]
     IN /\ call' = [call EXCEPT ![c].pc = "read", ![c].seen = call[c].ret.val]
        /\ limiter' = [limiter EXCEPT !.verdict[c] =
             IF OverMax(count, limiter.max)
             THEN [v EXCEPT !.kind = "throttled",
                            !.status = Member(HttpStatus, "TOO_MANY_REQUESTS").value,
                            !.retryAfter = [set |-> TRUE, value |-> resetTimeSeconds]]
             ELSE [v EXCEPT !.kind = "passed"]]
  /\ UNCHANGED <<now, store, locks, variant, pipeVars, respVars, ctxVars, appVars, routerVars, composeVars, bodyVars>>

\* ------------------------------------------------------------ ContextManager
Tasks == {1, 2}
MetaKeys == {"user"}
MetaValues == {"x", "y"}
NoStore == 0
NoTask == [pc |-> "idle", ops |-> 0, id |-> <<"t", 0, 0>>, meta |-> [k \in MetaKeys |-> Absent],
           tried |-> {}]
NoObs == [made |-> FALSE, inside |-> FALSE, id |-> <<"t", 0, 0>>, req |-> 0, res |-> 0,
          meta |-> [k \in MetaKeys |-> Absent], own |-> [k \in MetaKeys |-> Absent]]

\* generateFastId(): timestamp, counter and random part
FastId(counter, random) == <<"t", counter, random>>

\* `const store: RequestStore = {...}`: run makes a new object on every call
SharedStoreObject(t) == 1
StoreObject(t) == t

\* The RequestStore made for task t, whose request and response are t's own.
NewStore(t, id) ==
  [id |-> id, req |-> t, res |-> t, hasMetadata |-> FALSE,
   metadata |-> [k \in MetaKeys |-> Absent]]

\* storage.getStore() in the code task t runs
GetStore(t) == current[t]

\* set(key, value) on the stores, called by task t
SetShared(ss, t, key, value) ==
  [o \in DOMAIN ss |-> [ss[o] EXCEPT !.hasMetadata = TRUE, !.metadata[key] = value]]
Set(ss, t, key, value) ==
  IF GetStore(t) = NoStore THEN ss
  ELSE [ss EXCEPT ![GetStore(t)].hasMetadata = TRUE,
                  ![GetStore(t)].metadata[key] = value]

\* get(key), getRequestId(), getRequest(), getResponse()
Get(t, key) ==
  IF GetStore(t) = NoStore \/ ~stores[GetStore(t)].hasMetadata THEN Absent
  ELSE stores[GetStore(t)].metadata[key]
GetRequestId(t) == IF GetStore(t) = NoStore THEN <<"t", 0, 0>> ELSE stores[GetStore(t)].id
GetRequest(t) == IF GetStore(t) = NoStore THEN 0 ELSE stores[GetStore(t)].req
GetResponse(t) == IF GetStore(t) = NoStore THEN 0 ELSE stores[GetStore(t)].res

CtxActive(t) == running = t /\ task[t].pc = "run" /\ task[t].ops < MaxOps

\* context.run(req, res, fn): a store is made and fn starts, bound to it.
Run(t) ==
  /\ running = 0
  /\ task[t].pc = "idle"
  /\ \E random \in {0, 1} :
       LET id == FastId(requestCounter + 1, random)
       IN /\ stores' = [stores EXCEPT ![StoreObject(t)] = NewStore(t, id)]
          /\ task' = [task EXCEPT ![t].pc = "run", ![t].id = id]
  /\ requestCounter' = requestCounter + 1
  /\ current' = [current EXCEPT ![t] = StoreObject(t)]
  /\ running' = t
  /\ UNCHANGED <<obs, middlewares, pc, frame, log, res, respVars, storeVars, appVars, routerVars, composeVars, bodyVars>>

\* fn calls context.set(key, value).
CtxSet(t) ==
  /\ CtxActive(t)
  /\ \E key \in MetaKeys, value \in MetaValues :
       /\ stores' = Set(stores, t, key, value)
       /\ task' = [task EXCEPT ![t].ops = @ + 1, ![t].meta[key] = value]
  /\ UNCHANGED <<requestCounter, current, obs, pipeVars, respVars, storeVars, appVars, routerVars, composeVars, bodyVars>>

\* fn reads getRequestId(), getRequest(), getResponse() and get(key).
CtxRead(t) ==
  /\ CtxActive(t)
  /\ obs' = [obs EXCEPT ![t] = [made |-> TRUE, inside |-> TRUE, id |-> GetRequestId(t),
                                req |-> GetRequest(t), res |-> GetResponse(t),
                                meta |-> [k \in MetaKeys |-> Get(t, k)],
                                own |-> task[t].meta]]
  /\ task' = [task EXCEPT ![t].ops = @ + 1]
  /\ UNCHANGED <<requestCounter, stores, current, pipeVars, respVars, storeVars, appVars, routerVars, composeVars, bodyVars>>

\* fn awaits: the task gives up the thread; its continuation keeps the binding.
CtxSuspend(t) ==
  /\ CtxActive(t)
  /\ task' = [task EXCEPT ![t].pc = "wait", ![t].ops = @ + 1]
  /\ running' = 0
  /\ UNCHANGED <<requestCounter, stores, current, obs, middlewares, pc, frame, log,
                 res, respVars, storeVars, appVars, routerVars, composeVars, bodyVars>>

\* The continuation of fn runs.
CtxResume(t) ==
  /\ running = 0
  /\ task[t].pc = "wait"
  /\ task' = [task EXCEPT ![t].pc = "run"]
  /\ running' = t
  /\ UNCHANGED <<requestCounter, stores, current, obs, middlewares, pc, frame, log,
                 res, respVars, storeVars, appVars, routerVars, composeVars, bodyVars>>

\* Code that runs in no run's extent (before run is called, or after fn has
\* completed) calls context.set(key, value).
OutsideSet(t) ==
  /\ running = 0
  /\ task[t].pc \in {"idle", "done"}
  /\ task[t].ops < MaxOps
  /\ \E key \in MetaKeys, value \in MetaValues :
       /\ stores' = Set(stores, t, key, value)
       /\ task' = [task EXCEPT ![t].ops = @ + 1, ![t].tried = @ \cup {value}]
  /\ UNCHANGED <<requestCounter, current, obs, pipeVars, respVars, storeVars, appVars, routerVars, composeVars, bodyVars>>

\* Code that runs in no run's extent calls context.get(key).
OutsideRead(t) ==
  /\ running = 0
  /\ task[t].pc \in {"idle", "done"}
  /\ task[t].ops < MaxOps
  /\ obs' = [obs EXCEPT ![t] = [made |-> TRUE, inside |-> FALSE, id |-> GetRequestId(t),
                                req |-> GetRequest(t), res |-> GetResponse(t),
                                meta |-> [k \in MetaKeys |-> Get(t, k)],
                                own |-> task[t].meta]]
  /\ task' = [task EXCEPT ![t].ops = @ + 1]
  /\ UNCHANGED <<requestCounter, stores, current, pipeVars, respVars, storeVars, appVars, routerVars, composeVars, bodyVars>>

\* fn completes: outside run's extent nothing is bound.
CtxReturn(t) ==
  /\ running = t
  /\ task[t].pc = "run"
  /\ task' = [task EXCEPT ![t].pc = "done"]
  /\ current' = [current EXCEPT ![t] = NoStore]
  /\ running' = 0
  /\ UNCHANGED <<requestCounter, stores, obs, middlewares, pc, frame, log, res,
                 respVars, storeVars, appVars, routerVars, composeVars, bodyVars>>
\* ------------------------------------------------ Application._handleRequest
Methods == {"GET", "POST"}
BodyMethods == {"POST", "PUT", "PATCH"}

\* The parts of a ValidationSchema, in the order _validateSchema takes them.
SchemaParts == <<"body", "params", "query", "headers">>
PartNames == {SchemaParts[k] : k \in 1..Len(SchemaParts)}

\* `new HttpError(HttpStatus.BAD_REQUEST, formatted.message, formatted.errors)`
\* for the part that did not parse: its details are that part's field errors.
ValidationError(part) ==
  CASE part = "body" -> "invalid body"
    [] part = "params" -> "invalid params"
    [] part = "query" -> "invalid query"
    [] part = "headers" -> "invalid headers"
ValidationErrs == {ValidationError(part) : part \in PartNames}

\* HttpError objects the framework throws, and the statusCode of an error as
\* the default error handler sees it.
HttpErrs == {"http400", "http404", "http405"} \cup ValidationErrs
StatusOf(e) ==
  IF e = "http400" \/ e \in ValidationErrs THEN BAD_REQUEST
  ELSE IF e = "http404" THEN NOT_FOUND
  ELSE IF e = "http405" THEN METHOD_NOT_ALLOWED
  ELSE INTERNAL_SERVER_ERROR

\* error.details of an HttpError
DetailsOf(e) ==
  IF e \in ValidationErrs THEN "field errors"
  ELSE IF e = "http405" THEN "allowedMethods"
  ELSE IF e = "http400" THEN "parse error"
  ELSE Absent

\* _validateSchema(req, schema): the parts the schema has are parsed in order,
\* and the first that does not parse throws; invalid holds the parts of the
\* request that would not parse.
RECURSIVE ValidateFrom(_, _, _)
ValidateFrom(schema, invalid, k) ==
  IF k > Len(SchemaParts) THEN NoErr
  ELSE IF SchemaParts[k] \in schema /\ SchemaParts[k] \in invalid
  THEN ValidationError(SchemaParts[k])
  ELSE ValidateFrom(schema, invalid, k + 1)
ValidateBodyOnly(schema, invalid) ==
  IF "body" \in schema /\ "body" \in invalid THEN ValidationError("body") ELSE NoErr
ValidateSchema(schema, invalid) == ValidateFrom(schema, invalid, 1)

\* The schemas a route is registered with, and the requests' faults.
Schemas == {{"body"}, {"params", "headers"}, {"body", "params", "query", "headers"}}
Faults == {{}, {"body"}, {"params"}, {"query"}, {"headers"}, {"query", "headers"}}

\* What router.match(method, path) can answer: a route with its middleware (as
\* many as given) and maybe a schema, or one of the two failures.
Routes == [middleware : 0..MaxMw, schema : BOOLEAN]
Allowed(ms) == [given |-> TRUE, list |-> ms]
AllowedAnswers == {NoAllowed, Allowed(<<"POST">>), Allowed(<<"GET", "POST">>)}
MatchResults ==
  {[status |-> "MATCH", route |-> rt, allowedMethods |-> NoAllowed] : rt \in Routes}
    \cup {[status |-> "METHOD_NOT_ALLOWED", route |-> NoRoute, allowedMethods |-> a] :
             a \in AllowedAnswers}
    \cup {[status |-> "NOT_FOUND", route |-> NoRoute, allowedMethods |-> NoAllowed]}

\* allowedMethods.join(', ')
Join(ms) ==
  CASE ms = <<>> -> ""
    [] ms = <<"GET">> -> "GET"
    [] ms = <<"POST">> -> "POST"
    [] ms = <<"GET", "POST">> -> "GET, POST"
    [] ms = <<"POST", "GET">> -> "POST, GET"

\* `const allowedMethods = match.allowedMethods ?? [];
\*  res.header('allow', allowedMethods.join(', '))`
AllowHeaderOmitted(rs, allowedMethods) == rs
AllowHeader(rs, allowedMethods) ==
  Header(rs, "allow", Join(IF allowedMethods.given THEN allowedMethods.list ELSE <<>>))

\* `if (res.finished) { return; }` after the global and after the route chain
ResponseSentIgnored(rs) == FALSE
ResponseSent(rs) == Finished(rs)

\* `if (match.route.middleware.length > 0)`
RouteChainSkipped(route) == FALSE
RouteChainNeeded(route) == route.middleware > 0

\* _handleRequest returns: the request's task ends with locals f and response rs.
Finish(r, f, rs) ==
  /\ frame' = [frame EXCEPT ![r] =
                 [f EXCEPT !.settled = IF @ = Pending THEN Resolved ELSE @]]
  /\ pc' = [pc EXCEPT ![r] = "done"]
  /\ log' = log
  /\ running' = 0
  /\ res' = [res EXCEPT ![r] = rs]

\* The object the default handlers send: `error` (text) and `statusCode` (idx)
\* always; details, or message and stack, are undefined unless debug is set,
\* and JSON.stringify leaves undefined properties out.
ErrorBodyDebugAlways(who, e, debug) ==
  [who |-> who, idx |-> StatusOf(e), str |-> FALSE,
   text |-> IF e \in HttpErrs THEN e ELSE "Internal Server Error",
   details |-> IF e \in HttpErrs THEN DetailsOf(e) ELSE Absent,
   message |-> IF e \notin HttpErrs THEN e ELSE Absent,
   stack |-> IF e \notin HttpErrs THEN e ELSE Absent]
ErrorBody(who, e, debug) ==
  [who |-> who, idx |-> StatusOf(e), str |-> FALSE,
   text |-> IF e \in HttpErrs THEN e ELSE "Internal Server Error",
   details |-> IF debug /\ e \in HttpErrs THEN DetailsOf(e) ELSE Absent,
   message |-> IF debug /\ e \notin HttpErrs THEN e ELSE Absent,
   stack |-> IF debug /\ e \notin HttpErrs THEN e ELSE Absent]

\* `if (res.finished) { return; }` of _defaultErrorHandler
FinishedGuardPrivate(rs) == rs.p_finished
FinishedGuard(rs) == Finished(rs)

\* _defaultErrorHandler(error, req, res)
DefaultErrorHandlerLogsOnly(rs, e) == rs
DefaultErrorHandler(rs, e) ==
  IF FinishedGuard(rs) THEN rs
  ELSE Json(Status(rs, StatusOf(e)), ErrorBody("defaultErrorHandler", e, options.debug))

\* JSON.stringify(value), as createErrorHandler calls it
JSONStringify(data) == [enc |-> "JSON.stringify", data |-> data]

\* The handler createErrorHandler({debug}) returns, called with (error, req,
\* res): it writes to res.raw, not through the Response object.
CreatedErrorHandler(rs, e, debug) ==
  IF rs.raw.headersSent THEN rs
  ELSE [rs EXCEPT !.raw =
          RawEnd([rs.raw EXCEPT !.statusCode = StatusOf(e),
                                !.headers["content-type"] = "application/json"],
                 JSONStringify(ErrorBody("createErrorHandler", e, debug)))]

\* `try { await errorHandler(...) } catch (handlerError) { console.error(...);
\*  this._defaultErrorHandler(error, req, res); }`: what is left in the response
\* and how _handleError settles when the configured handler threw
FallbackRethrows(rs, error, handlerError) ==
  [res |-> rs, settled |-> Rejected(handlerError)]
Fallback(rs, error, handlerError) ==
  [res |-> DefaultErrorHandler(rs, error), settled |-> Resolved]

\* The code named who (the route's handler or the configured error handler) is
\* called and runs on the caller's thread until its first await.
Invoke(r, f, rs, who) ==
  /\ frame' = [frame EXCEPT ![r] = [f EXCEPT !.callee = who, !.steps = 0,
                                             !.outcome = Pending]]
  /\ pc' = [pc EXCEPT ![r] = "run"]
  /\ log' = [log EXCEPT ![r] = Append(@, Invocation(who, 0))]
  /\ running' = r
  /\ res' = [res EXCEPT ![r] = rs]

\* `catch (error) { await this._handleError(error, req, res); }`
HandleError(r, f, rs, e) ==
  LET g == [f EXCEPT !.raised = e]
  IN IF Finished(rs) THEN Finish(r, g, rs)
     ELSE IF options.customErrorHandler
     THEN Invoke(r, [g EXCEPT !.caught = e, !.handled = e], rs, "errorHandler")
     ELSE Finish(r, [g EXCEPT !.handled = e], DefaultErrorHandler(rs, e))

\* From the end of the route's middleware (or from the match when the route has
\* none) to the call of the handler.
AfterRouteChain(r, f, rs) ==
  IF ResponseSent(rs) THEN Finish(r, f, rs) ELSE Invoke(r, f, rs, "handler")

\* The route's middleware, if it has any, is made into a chain and executed.
RouteStage(r, f, rs) ==
  IF RouteChainNeeded(f.route)
  THEN StartExecute(r, f, "route") /\ res' = [res EXCEPT ![r] = rs]
  ELSE AfterRouteChain(r, f, rs)

\* `switch (match.status)` for the answer m of router.match
Dispatch(r, f, rs, m) ==
  IF m.status = "MATCH"
  THEN LET g == [f EXCEPT !.route = m.route, !.match = m]
       IN IF m.route.schema
          THEN \E schema \in Schemas, invalid \in Faults :
                 LET meet == schema \cap invalid # {}
                 IN /\ frame' = [frame EXCEPT ![r] =
                                   [g EXCEPT !.caught = ValidateSchema(schema, invalid),
                                             !.schema = IF meet THEN schema ELSE {},
                                             !.invalid = IF meet THEN invalid ELSE {}]]
                    /\ pc' = [pc EXCEPT ![r] = "validated"]
                    /\ log' = log
                    /\ running' = 0
                    /\ res' = [res EXCEPT ![r] = rs]
          ELSE RouteStage(r, g, rs)
  ELSE IF m.status = "METHOD_NOT_ALLOWED"
  THEN HandleError(r, [f EXCEPT !.match = m], AllowHeader(rs, m.allowedMethods), "http405")
  ELSE HandleError(r, [f EXCEPT !.match = m], rs, "http404")

\* _handleRequest(rawReq, rawRes) up to its first await: parseBody for a method
\* with a body, else the execution of the global chain.
HandleRequest(r, method) ==
  /\ running = 0
  /\ pc[r] = "idle"
  /\ LET f == [NewFrame EXCEPT !.mode = "app", !.method = method]
     IN IF method \in BodyMethods
        THEN /\ frame' = [frame EXCEPT ![r] = f]
             /\ pc' = [pc EXCEPT ![r] = "parseBody"]
             /\ log' = log
             /\ running' = 0
        ELSE StartExecute(r, f, "global")
  /\ UNCHANGED <<middlewares, res, respVars, storeVars, ctxVars, appVars, routerVars, composeVars, bodyVars>>

\* `await req.parseBody()` settles: the body was parsed, or it was not valid JSON.
AfterParseBody(r) ==
  /\ running = 0
  /\ pc[r] = "parseBody"
  /\ \E e \in {NoErr, "http400"} :
       IF e = NoErr
       THEN StartExecute(r, frame[r], "global") /\ res' = res
       ELSE HandleError(r, frame[r], res[r], e)
  /\ UNCHANGED <<middlewares, respVars, storeVars, ctxVars, appVars, routerVars, composeVars, bodyVars>>

\* `await chain.execute(req, res)` settles, for the global or the route chain.
AfterChain(r) ==
  /\ running = 0
  /\ pc[r] = "chainSettled"
  /\ LET f == frame[r]
         rs == res[r]
     IN IF f.result.kind = "rejected" THEN HandleError(r, f, rs, f.result.err)
        ELSE IF f.chain = "global"
        THEN IF ResponseSent(rs) THEN Finish(r, f, rs)
             ELSE \E m \in MatchResults : Dispatch(r, f, rs, m)
        ELSE AfterRouteChain(r, f, rs)
  /\ UNCHANGED <<middlewares, respVars, storeVars, ctxVars, appVars, routerVars, composeVars, bodyVars>>

\* `await this._validateSchema(req, match.route.schema)` settles.
AfterValidate(r) ==
  /\ running = 0
  /\ pc[r] = "validated"
  /\ LET f == [frame[r] EXCEPT !.caught = NoErr]
     IN IF frame[r].caught # NoErr THEN HandleError(r, f, res[r], frame[r].caught)
        ELSE RouteStage(r, f, res[r])
  /\ UNCHANGED <<middlewares, respVars, storeVars, ctxVars, appVars, routerVars, composeVars, bodyVars>>

\* `if (!res.finished)` after the switch
NoContentSkipped(rs) == FALSE
NoContentNeeded(rs) == ~Finished(rs)

\* The route's handler streams: res.write(chunk).
WriteChunk(r) ==
  /\ Active(r)
  /\ frame[r].callee = "handler"
  /\ res' = [res EXCEPT ![r] = Write(@, [Payload(r) EXCEPT !.str = TRUE])]
  /\ frame' = Step(frame, r)
  /\ UNCHANGED <<running, middlewares, pc, log, respVars, storeVars, ctxVars, appVars, routerVars, composeVars, bodyVars>>

\* `await match.route.handler(req, res)` settles; a handler that sent nothing
\* gets the 204 fallback.
AfterHandler(r) ==
  /\ running = 0
  /\ pc[r] = "awaited"
  /\ frame[r].callee = "handler"
  /\ LET f == [frame[r] EXCEPT !.outcome = Pending]
         rs == res[r]
     IN IF frame[r].outcome.kind = "rejected"
        THEN HandleError(r, f, rs, frame[r].outcome.err)
        ELSE IF NoContentNeeded(rs)
        THEN Finish(r, [f EXCEPT !.fallback = TRUE], Send(Status(rs, NO_CONTENT), Undefined))
        ELSE Finish(r, f, rs)
  /\ UNCHANGED <<middlewares, respVars, storeVars, ctxVars, appVars, routerVars, composeVars, bodyVars>>

\* `await this._options.errorHandler(error, req, res)` settles; if the handler
\* threw, the default error handler takes the original error.
AfterErrorHandler(r) ==
  /\ running = 0
  /\ pc[r] = "awaited"
  /\ frame[r].callee = "errorHandler"
  /\ LET f == [frame[r] EXCEPT !.outcome = Pending]
     IN IF frame[r].outcome.kind = "rejected"
        THEN LET fb == Fallback(res[r], f.caught, frame[r].outcome.err)
             IN Finish(r, [f EXCEPT !.settled = fb.settled], fb.res)
        ELSE Finish(r, f, res[r])
  /\ UNCHANGED <<middlewares, respVars, storeVars, ctxVars, appVars, routerVars, composeVars, bodyVars>>


\* ------------------------------------------- error handlers called directly
\* Errors handed to an error handler: an Error and an HttpError.
HandlerErrs == {"e1", "http404"}

\* An error handler is called with (error, req, res) on the Response resp.
RespHandlerCall(name, e, next) ==
  /\ respCalls < MaxCalls
  /\ resp' = next
  /\ respCalls' = respCalls + 1
  /\ respAfter' = respAfter + (IF Finished(resp) THEN 1 ELSE 0)
  /\ errCall' = [handler |-> name, error |-> e, before |-> resp]
  /\ UNCHANGED <<pipeVars, storeVars, ctxVars, appVars, routerVars, composeVars, bodyVars>>

CallDefaultErrorHandler(e) ==
  RespHandlerCall("defaultErrorHandler", e, DefaultErrorHandler(resp, e))
CallCreatedErrorHandler(e) ==
  RespHandlerCall("createErrorHandler", e, CreatedErrorHandler(resp, e, options.debug))
\* -------------------------------------------------------------------- Router
\* Strings are sequences of one-character strings.
WordChars == {"u", "U", "m", "i", "j", "p", "f", "a", "b", "x", "1", "2"}
\* The characters `.replace(/[.+?^${}()|[\]\\]/g, '\\$&')` puts a backslash before
Special == {".", "+", "?", "^", "$", "{", "}", "(", ")", "|", "[", "]", "\\"}

\* String.prototype.toUpperCase on a method name
ToUpperCase(m) == IF m = "get" THEN "GET" ELSE IF m = "post" THEN "POST" ELSE m

\* path.replace(/\/+$/, '')
RECURSIVE StripTrailingSlashes(_)
StripTrailingSlashes(p) ==
  IF p # <<>> /\ p[Len(p)] = "/" THEN StripTrailingSlashes(SubSeq(p, 1, Len(p) - 1))
  ELSE p

\* _normalizePath(path)
NormalizePathLeadingOnly(path) ==
  IF path = <<>> \/ path[1] # "/" THEN <<"/">> \o path ELSE path
NormalizePath(path) ==
  IF path = <<>> \/ path = <<"/">> THEN <<"/">>
  ELSE LET normalized == StripTrailingSlashes(path)
       IN IF normalized = <<>> \/ normalized[1] # "/"
          THEN <<"/">> \o normalized ELSE normalized

\* What the regular-expression source is made of while it is rewritten: a
\* character still to be read as text, or a piece a replace has put in.
Ch(c) == [kind |-> "ch", ch |-> c, name |-> <<>>]
Group(name) == [kind |-> "group", ch |-> "", name |-> name]      \* (?<name>[^/]+)
OptGroup(name) == [kind |-> "opt", ch |-> "", name |-> name]     \* (?<name>[^/]+)?
Star == [kind |-> "star", ch |-> "", name |-> <<>>]              \* .*

\* .replace(/[.+?^${}()|[\]\\]/g, '\\$&')
RECURSIVE Escape(_)
Escape(s) ==
  IF s = <<>> THEN <<>>
  ELSE (IF s[1] \in Special THEN <<"\\", s[1]>> ELSE <<s[1]>>) \o Escape(Tail(s))

\* The length of the run of characters from the set cs that starts s at i
RECURSIVE RunLen(_, _, _)
RunLen(s, i, cs) ==
  IF i <= Len(s) /\ s[i].kind = "ch" /\ s[i].ch \in cs THEN 1 + RunLen(s, i + 1, cs) ELSE 0

NameAt(s, i, n) == [k \in 1..n |-> s[i + k].ch]
IsCh(s, i, c) == i <= Len(s) /\ s[i].kind = "ch" /\ s[i].ch = c

\* .replace(/:(\w+)\?/g, '(?<$1>[^/]+)?')
RECURSIVE ReplaceOptional(_, _)
ReplaceOptional(s, i) ==
  IF i > Len(s) THEN <<>>
  ELSE LET n == RunLen(s, i + 1, WordChars)
       IN IF IsCh(s, i, ":") /\ n > 0 /\ IsCh(s, i + n + 1, "?")
          THEN <<OptGroup(NameAt(s, i, n))>> \o ReplaceOptional(s, i + n + 2)
          ELSE <<s[i]>> \o ReplaceOptional(s, i + 1)

\* .replace(/:(\w+)/g, '(?<$1>[^/]+)')
RECURSIVE ReplaceNamed(_, _)
ReplaceNamed(s, i) ==
  IF i > Len(s) THEN <<>>
  ELSE LET n == RunLen(s, i + 1, WordChars)
       IN IF IsCh(s, i, ":") /\ n > 0
          THEN <<Group(NameAt(s, i, n))>> \o ReplaceNamed(s, i + n + 1)
          ELSE <<s[i]>> \o ReplaceNamed(s, i + 1)

\* .replace(/\*/g, '.*')
ReplaceWildcard(s) == [i \in 1..Len(s) |-> IF IsCh(s, i, "*") THEN Star ELSE s[i]]

\* new RegExp(`^${regexPattern}$`): a backslash and the character after it are
\* that character taken literally; the characters left are literal too.
RECURSIVE Compile(_, _)
Compile(s, i) ==
  IF i > Len(s) THEN <<>>
  ELSE IF IsCh(s, i, "\\") /\ i < Len(s)
  THEN <<[kind |-> "lit", ch |-> s[i + 1].ch, name |-> <<>>]>> \o Compile(s, i + 2)
  ELSE IF s[i].kind = "ch"
  THEN <<[kind |-> "lit", ch |-> s[i].ch, name |-> <<>>]>> \o Compile(s, i + 1)
  ELSE <<s[i]>> \o Compile(s, i + 1)

\* The regular expression _matchPath builds for a pattern
RegexOf(pattern) ==
  LET escaped == Escape(pattern)
      chars == [i \in 1..Len(escaped) |-> Ch(escaped[i])]
      optional == ReplaceOptional(chars, 1)
      named == ReplaceNamed(optional, 1)
  IN Compile(ReplaceWildcard(named), 1)

\* What _matchPath returns: null, or the params object as the set of its
\* entries (an entry whose value is <<>> holds undefined).
NoParams == [ok |-> FALSE, params |-> {}]
Params(entries) == [ok |-> TRUE, params |-> entries]

\* The number of characters other than "/" that path has from j on
RECURSIVE SegmentRun(_, _)
SegmentRun(path, j) ==
  IF j <= Len(path) /\ path[j] # "/" THEN 1 + SegmentRun(path, j + 1) ELSE 0

\* path.match(regex) for the anchored expression re: Exec matches re from its
\* i-th piece at position j of path; Repeat tries a quantified piece e on k
\* characters, then on fewer down to min (quantifiers are greedy and backtrack).
\* The `$` the expression ends with: the match has to end where path ends.
AtEndAlways(path, j) == TRUE
AtEnd(path, j) == j > Len(path)

\* `[^/]+` takes characters up to the next "/".
RestRun(path, j) == Len(path) - j + 1
GroupRun(path, j) == SegmentRun(path, j)

RECURSIVE Exec(_, _, _, _, _)
RECURSIVE Repeat(_, _, _, _, _, _, _)
Repeat(re, i, path, j, caps, k, min) ==
  IF k < min
  THEN IF re[i].kind = "opt"
       THEN Exec(re, i + 1, path, j, caps \cup {[name |-> re[i].name, value |-> <<>>]})
       ELSE NoParams
  ELSE LET taken == IF re[i].kind = "star" THEN caps
                    ELSE caps \cup {[name |-> re[i].name,
                                     value |-> SubSeq(path, j, j + k - 1)]}
           rest == Exec(re, i + 1, path, j + k, taken)
       IN IF rest.ok THEN rest ELSE Repeat(re, i, path, j, caps, k - 1, min)
Exec(re, i, path, j, caps) ==
  IF i > Len(re)
  THEN IF AtEnd(path, j) THEN Params(caps) ELSE NoParams
  ELSE IF re[i].kind = "lit"
  THEN IF j <= Len(path) /\ path[j] = re[i].ch
       THEN Exec(re, i + 1, path, j + 1, caps) ELSE NoParams
  ELSE IF re[i].kind = "star"
  THEN Repeat(re, i, path, j, caps, Len(path) - j + 1, 0)
  ELSE Repeat(re, i, path, j, caps, GroupRun(path, j), 1)

\* _matchPath(pattern, path)
MatchPath(pattern, path) ==
  IF pattern = path THEN Params({})
  ELSE Exec(RegexOf(pattern), 1, path, 1, {})

\* What match returns: null, or the route found (index is its place in
\* this.routes, which tells its handler) and the params.
Null == [found |-> FALSE, index |-> 0, method |-> "", path |-> <<>>, params |-> {}]
RouteMatch(rs, i, params) ==
  [found |-> TRUE, index |-> i, method |-> rs[i].method, path |-> rs[i].path,
   params |-> params]

\* The for loop of match from the i-th route on
RECURSIVE MatchFrom(_, _, _, _)
MatchFrom(rs, method, normalizedPath, i) ==
  IF i > Len(rs) THEN Null
  ELSE IF rs[i].method # ToUpperCase(method)
  THEN MatchFrom(rs, method, normalizedPath, i + 1)
  ELSE LET params == MatchPath(rs[i].path, normalizedPath)
       IN IF params.ok THEN RouteMatch(rs, i, params.params)
          ELSE MatchFrom(rs, method, normalizedPath, i + 1)

\* match(method, path)
Match(rs, method, path) == MatchFrom(rs, method, NormalizePath(path), 1)

\* hasPath(path)
HasPath(rs, path) ==
  \E i \in 1..Len(rs) : MatchPath(rs[i].path, NormalizePath(path)).ok

\* getAllowedMethods(path): one entry per route whose pattern matches
RECURSIVE AllowedFrom(_, _, _)
AllowedFrom(rs, normalizedPath, i) ==
  IF i > Len(rs) THEN <<>>
  ELSE (IF MatchPath(rs[i].path, normalizedPath).ok THEN <<rs[i].method>> ELSE <<>>)
         \o AllowedFrom(rs, normalizedPath, i + 1)
GetAllowedMethods(rs, path) == AllowedFrom(rs, NormalizePath(path), 1)

\* Paths routes are registered with, and methods and paths of requests.
RoutePaths ==
  { <<"/", "u">>, <<"/", "U">>, <<"/", "u", "/">>,
    <<"/", "u", "/", "m">>, <<"/", "u", "/", ":", "i">>,
    <<"/", "u", "/", ":", "i", "?">>,
    <<"/", "u", "/", ":", "i", "/", "p", "/", ":", "j">>,
    <<"/", "f", "/", "*">> }
RequestPaths ==
  { <<>>, <<"/">>, <<"/", "u">>, <<"/", "U">>, <<"/", "u", "/">>,
    <<"/", "u", "/", "m">>, <<"/", "u", "/", "1">>, <<"/", "u", "/", "1", "?">>,
    <<"/", "u", "/", "1", "/", "x">>, <<"/", "u", "/", "1", "/", "p", "/", "2">>,
    <<"/", "f">>, <<"/", "f", "/", "a">>, <<"/", "f", "/", "a", "/", "b">>,
    <<"/", "p">> }
RouteMethods == {"GET", "POST"}
RequestMethods == {"GET", "POST"}

\* What `method.toUpperCase()` does to the value a caller hands to addRoute as
\* `method`: String.prototype has toUpperCase, Array.prototype has not, so on
\* an Array the call is a TypeError (`method.toUpperCase is not a function`).
StringArg(m) == [type |-> "string", value |-> m]
ArrayArg(ms) == [type |-> "array", value |-> ms]
ToUpperCaseCall(arg) ==
  IF arg.type = "string"
  THEN [threw |-> FALSE, value |-> ToUpperCase(arg.value)]
  ELSE [threw |-> TRUE, value |-> arg.value]

\* Arrays of methods a caller hands to addRoute
MethodLists == {<<"GET">>, <<"GET", "POST">>, <<"POST", "GET">>}

NoCallYet ==
  [op |-> "none", method |-> "", path |-> <<>>, result |-> Null, allowed |-> <<>>,
   threw |-> FALSE]

\* addRoute(method, path, handler), during setup
AddRoute(method, path) ==
  /\ Len(routes) < MaxRoutes
  /\ routes' = Append(routes, [method |-> ToUpperCaseCall(StringArg(method)).value,
                               path |-> NormalizePath(path)])
  /\ UNCHANGED <<matched, pipeVars, respVars, storeVars, ctxVars, appVars, composeVars, bodyVars>>

\* addRoute(methods, path, handler) where methods is an Array: the object
\* literal handed to push is evaluated first, and its `method` property throws.
AddRouteList(methods, path) ==
  /\ Len(routes) + Len(methods) <= MaxRoutes
  /\ LET upper == ToUpperCaseCall(ArrayArg(methods))
     IN /\ routes' = IF upper.threw THEN routes
                     ELSE Append(routes, [method |-> upper.value,
                                          path |-> NormalizePath(path)])
        /\ matched' = [op |-> "addRoute", method |-> "", path |-> path,
                       result |-> Null, allowed |-> methods, threw |-> upper.threw]
  /\ UNCHANGED <<pipeVars, respVars, storeVars, ctxVars, appVars, composeVars, bodyVars>>

\* A caller asks match(method, path).
CallMatch(method, path) ==
  /\ matched' = [op |-> "match", method |-> method, path |-> path,
                 result |-> Match(routes, method, path), allowed |-> <<>>,
                 threw |-> FALSE]
  /\ UNCHANGED <<routes, pipeVars, respVars, storeVars, ctxVars, appVars, composeVars, bodyVars>>

\* A caller asks getAllowedMethods(path).
CallGetAllowedMethods(path) ==
  /\ matched' = [op |-> "getAllowedMethods", method |-> "", path |-> path,
                 result |-> Null, allowed |-> GetAllowedMethods(routes, path),
                 threw |-> FALSE]
  /\ UNCHANGED <<routes, pipeVars, respVars, storeVars, ctxVars, appVars, composeVars, bodyVars>>


\* ------------------------------------------------------------------- compose
\* The same middlewares m1..mn are run twice: by a MiddlewareChain that holds
\* them directly, and by a MiddlewareChain that holds compose(m1..mn).  To run
\* the same middleware twice it is given as a script: the operations it
\* performs, in order; at the end of its script it returns.
\*   "next"       next()              the promise next returns is dropped
\*   "nextErr"    next(err)
\*   "awaitNext"  await next()
\*   "wait"       await of a timer or I/O
\*   "throw"      throw err
\* A middleware does one of: call next once, halt, or throw.
Scripts ==
  { <<>>, <<"next">>, <<"wait", "next">>, <<"awaitNext">>, <<"nextErr">>,
    <<"throw">>, <<"wait", "throw">> }

\* The Error object middleware i throws or passes to next
ErrNames == <<"e1", "e2", "e3", "e4">>
ErrOf(i) == ErrNames[i]

\* Who awaits the promise an invocation returns: the chain's loop, the
\* middleware that called next (its number), or nobody.
ByChain == -1
ByNobody == 0

\* One invocation of a middleware: where it stands (st), the operations done
\* (pos), the invocation whose promise it awaits (awaits, 0 for a value that is
\* no pending promise), who awaits its own promise (by), its rejection (err).
NotInvoked == [st |-> "idle", pos |-> 0, awaits |-> 0, by |-> ByNobody, err |-> NoErr]

\* `let index = 0; let error;` of execute, `let index = 0` of the composed
\* middleware, and nothing invoked yet.
NewTrial(mode) ==
  [mode |-> mode, at |-> "idle", index |-> 0, error |-> NoErr, currentIndex |-> 0,
   result |-> Pending, cindex |-> 0,
   acts |-> [i \in 1..MaxCompose + 1 |-> NotInvoked],
   stack |-> <<>>, order |-> <<>>, outer |-> 0, unhandled |-> {}]

NoOutcome == [order |-> <<>>, result |-> Pending]

\* this.middlewares.length of the chain: m1..mn, or the one composed middleware
TrialChainLength(t, ms) == IF t.mode = "direct" THEN Len(ms) ELSE 1

\* `middleware(req, res, next)`: the call runs on the caller's stack
InvokeMiddleware(t, i, by) ==
  [t EXCEPT !.acts[i] = [NotInvoked EXCEPT !.st = "run", !.by = by],
            !.stack = Append(@, i),
            !.order = Append(@, i)]

\* `if (index >= middlewares.length)` of dispatch
DispatchDoneEarly(idx, len) == idx >= len - 1
DispatchDone(idx, len) == idx >= len

\* dispatch() of compose: `next(); return;` once the middlewares are used up, else
\* `middlewares[index++]` is called.  The outer next is the chain's: index++.
ComposeDispatch(t, ms, by) ==
  IF DispatchDone(t.cindex, Len(ms))
  THEN [t EXCEPT !.index = @ + 1, !.outer = @ + 1]
  ELSE InvokeMiddleware([t EXCEPT !.cindex = @ + 1], t.cindex + 1, by)

\* The invocation dispatch has just called, 0 if it called the outer next
\* (its promise is then resolved already).
Dispatched(t, ms) == IF DispatchDone(t.cindex, Len(ms)) THEN 0 ELSE t.cindex + 1

\* What next does for the middleware that calls it.  In the chain: `index++`,
\* or `error = err`.  In compose the function handed over is
\* `() => { return dispatch(); }`, which takes no argument.
TrialNext(t, ms, i, withErr, by) ==
  IF t.mode = "direct"
  THEN IF withErr THEN [t EXCEPT !.error = ErrOf(i)]
       ELSE [t EXCEPT !.index = @ + 1]
  ELSE ComposeDispatch(t, ms, by)

\* Control goes back down the stack: an invocation that has settled or that
\* now awaits leaves the stack, and its caller goes on.
RECURSIVE Unwind(_)
Unwind(t) ==
  IF t.stack = <<>> THEN t
  ELSE IF t.acts[t.stack[Len(t.stack)]].st = "run" THEN t
  ELSE Unwind([t EXCEPT !.stack = SubSeq(@, 1, Len(@) - 1)])

\* An invocation's promise rejects: with nobody awaiting it, the rejection is
\* unhandled.
Reject(t, i, e) ==
  [t EXCEPT !.acts[i].st = "err", !.acts[i].err = e,
            !.unhandled = IF t.acts[i].by = ByNobody THEN @ \cup {e} ELSE @]

\* The invocation on top of the stack performs the next operation of its
\* script, or returns at its end.
Perform(t, ms, i) ==
  LET a == t.acts[i]
      script == ms[i]
      u == [t EXCEPT !.acts[i].pos = @ + 1]
  IN IF a.pos >= Len(script) THEN [t EXCEPT !.acts[i].st = "ok"]
     ELSE LET op == script[a.pos + 1]
          IN CASE op = "next" -> TrialNext(u, ms, i, FALSE, ByNobody)
               [] op = "nextErr" -> TrialNext(u, ms, i, TRUE, ByNobody)
               [] op = "awaitNext" ->
                    TrialNext([u EXCEPT !.acts[i].st = "child",
                                        !.acts[i].awaits =
                                           IF t.mode = "direct" THEN 0
                                           ELSE Dispatched(t, ms)],
                              ms, i, FALSE, i)
               [] op = "wait" -> [u EXCEPT !.acts[i].st = "timer"]
               [] op = "throw" -> Reject(u, i, ErrOf(i))

\* The promise the chain's `await middleware(req, res, next)` waits for: the
\* middleware's own, or the composed middleware's, which settles as its
\* `await dispatch()` does.
ChainAwaits(t, ms) ==
  IF t.mode = "direct" THEN t.acts[t.currentIndex + 1]
  ELSE IF Len(ms) = 0 THEN [NotInvoked EXCEPT !.st = "ok"]
  ELSE t.acts[1]

Settled(a) == a.st \in {"ok", "err"}

\* An await whose promise has settled: its continuation is a microtask.
CanContinue(t, i) ==
  /\ t.acts[i].st = "child"
  /\ IF t.acts[i].awaits = 0 THEN TRUE ELSE Settled(t.acts[t.acts[i].awaits])
MicrotaskPending(t, ms) ==
  \/ \E i \in 1..Len(ms) : CanContinue(t, i)
  \/ t.at = "awaiting" /\ Settled(ChainAwaits(t, ms))

\* Nothing is left to run.
Quiet(t, ms) ==
  /\ t.at = "done"
  /\ t.stack = <<>>
  /\ \A i \in 1..Len(ms) : t.acts[i].st \in {"idle", "ok", "err"}

\* The head of execute's while loop.
TrialLoopHead(t, ms) ==
  IF LoopCondition(t.index, t.error, TrialChainLength(t, ms))
  THEN LET u == [t EXCEPT !.currentIndex = t.index, !.at = "awaiting"]
       IN IF t.mode = "direct"
          THEN InvokeMiddleware(u, t.index + 1, ByChain)
          ELSE ComposeDispatch([u EXCEPT !.cindex = 0], ms, ByChain)
  ELSE [t EXCEPT !.at = "done", !.result = Settle(t.error)]

TrialLoopBreak(t) == [t EXCEPT !.at = "done", !.result = Settle(t.error)]

\* Setup: the next middleware is chosen.
Give(script) ==
  /\ trial.at = "idle"
  /\ trial.mode = "direct"
  /\ Len(given) < MaxCompose
  /\ given' = Append(given, script)
  /\ UNCHANGED <<trial, direct, pipeVars, respVars, storeVars, ctxVars, appVars, routerVars, bodyVars>>

\* chain.use(m1) ... chain.use(mn); chain.execute(req, res)
ExecuteDirect ==
  /\ trial.at = "idle"
  /\ trial.mode = "direct"
  /\ trial' = Unwind(TrialLoopHead(trial, given))
  /\ UNCHANGED <<given, direct, pipeVars, respVars, storeVars, ctxVars, appVars, routerVars, bodyVars>>

\* chain.use(compose(m1, ..., mn)); chain.execute(req, res), once the direct
\* execution has come to rest; what that came to is kept.
ExecuteComposed ==
  /\ trial.mode = "direct"
  /\ Quiet(trial, given)
  /\ direct' = [order |-> trial.order, result |-> trial.result]
  /\ trial' = Unwind(TrialLoopHead(NewTrial("composed"), given))
  /\ UNCHANGED <<given, pipeVars, respVars, storeVars, ctxVars, appVars, routerVars, bodyVars>>

\* The running middleware performs its next operation.
Operate ==
  /\ trial.stack # <<>>
  /\ trial' = Unwind(Perform(trial, given, trial.stack[Len(trial.stack)]))
  /\ UNCHANGED <<given, direct, pipeVars, respVars, storeVars, ctxVars, appVars, routerVars, bodyVars>>

\* A middleware's `await next()` goes on: it throws what the promise rejected
\* with, else it takes up its script again.
Continue(i) ==
  /\ trial.stack = <<>>
  /\ i \in 1..Len(given)
  /\ CanContinue(trial, i)
  /\ LET child == trial.acts[i].awaits
     IN trial' = IF child # 0 /\ trial.acts[child].st = "err"
                 THEN Reject(trial, i, trial.acts[child].err)
                 ELSE [trial EXCEPT !.acts[i].st = "run", !.stack = <<i>>]
  /\ UNCHANGED <<given, direct, pipeVars, respVars, storeVars, ctxVars, appVars, routerVars, bodyVars>>

\* A timer fires: the middleware that awaited it goes on.  Timers fire only
\* when no microtask is left.
Fire(i) ==
  /\ trial.stack = <<>>
  /\ i \in 1..Len(given)
  /\ trial.acts[i].st = "timer"
  /\ ~MicrotaskPending(trial, given)
  /\ trial' = [trial EXCEPT !.acts[i].st = "run", !.stack = <<i>>]
  /\ UNCHANGED <<given, direct, pipeVars, respVars, storeVars, ctxVars, appVars, routerVars, bodyVars>>

\* execute goes on after `await middleware(req, res, next)`.
TrialAfterMiddleware ==
  /\ trial.stack = <<>>
  /\ trial.at = "awaiting"
  /\ Settled(ChainAwaits(trial, given))
  /\ LET a == ChainAwaits(trial, given)
     IN trial' = IF a.st = "err"
                 THEN TrialLoopBreak(Catch(trial, a.err))
                 ELSE IF NextNotCalled(trial.index, trial.currentIndex)
                 THEN TrialLoopBreak(trial)
                 ELSE Unwind(TrialLoopHead(trial, given))
  /\ UNCHANGED <<given, direct, pipeVars, respVars, storeVars, ctxVars, appVars, routerVars, bodyVars>>

\* ----------------------------------------------------------------- parseBody
\* An Error object: its class, statusCode (HttpError), code (system errors)
NoError == [name |-> "none", statusCode |-> Member(HttpStatus, ""), code |-> Absent, message |-> ""]
NewHttpError(statusCode, message) ==
  [name |-> "HttpError", statusCode |-> statusCode, code |-> Absent, message |-> message]
\* The error the platform destroys an aborted request with (Node.js 18+)
ConnReset ==
  [name |-> "Error", statusCode |-> Member(HttpStatus, ""), code |-> "ECONNRESET", message |-> "aborted"]

\* What the client sends: chunk lengths, the limit, and what the text is.
ChunkSizes == {1, 2}
BodyLimits == {2, 3}
BodyKinds == {"json", "bad json", "text"}
RECURSIVE SeqsUpTo(_, _)
SeqsUpTo(S, n) ==
  IF n = 0 THEN {<<>>}
  ELSE LET shorter == SeqsUpTo(S, n - 1)
       IN shorter \cup {Append(q, x) : q \in {t \in shorter : Len(t) = n - 1}, x \in S}

\* No Request constructed yet.
NoRequest ==
  [at |-> "none", maxBodySize |-> 0, toCome |-> <<>>, kind |-> "text", totalSize |-> 0,
   chunks |-> 0, destroyed |-> FALSE, aborted |-> FALSE, errorDue |-> FALSE,
   ended |-> FALSE, result |-> "pending", error |-> NoError]

\* resolve / reject of the promise parseBody returns: the first one counts
ResolveRead(p) == IF p.result = "pending" THEN [p EXCEPT !.result = "resolved"] ELSE p
RejectRead(p, e) ==
  IF p.result = "pending" THEN [p EXCEPT !.result = "rejected", !.error = e] ELSE p

\* `if (totalSize > this._maxBodySize)`
OverLimit(totalSize, maxBodySize) == totalSize > maxBodySize

\* `this.raw.on('error', reject)`
ErrorListenerMissing == FALSE
ErrorListener == TRUE

\* new Request(rawReq, maxBodySize) for a request whose body is still to come
NewRequest(maxBodySize, sizes, kind) ==
  /\ parse.at = "none"
  /\ parse' = [NoRequest EXCEPT !.at = "new", !.maxBodySize = maxBodySize,
                                !.toCome = sizes, !.kind = kind]
  /\ UNCHANGED <<pipeVars, respVars, storeVars, ctxVars, appVars, routerVars, composeVars>>

\* req.parseBody(): body is undefined, the listeners are registered
ParseBody ==
  /\ parse.at = "new"
  /\ parse' = [parse EXCEPT !.at = "listening"]
  /\ UNCHANGED <<pipeVars, respVars, storeVars, ctxVars, appVars, routerVars, composeVars>>

\* 'data': the chunk is kept and counted; past the limit the raw request is
\* destroyed and the promise rejected.
OnData ==
  /\ parse.at = "listening"
  /\ ~parse.destroyed /\ ~parse.aborted /\ ~parse.ended
  /\ parse.toCome # <<>>
  /\ LET p == [parse EXCEPT !.chunks = @ + 1,
                            !.totalSize = @ + Head(parse.toCome),
                            !.toCome = Tail(@)]
     IN parse' = IF OverLimit(p.totalSize, p.maxBodySize)
                 THEN RejectRead([p EXCEPT !.destroyed = TRUE],
                                 NewHttpError(Member(HttpStatus, "REQUEST_TOO_LARGE"),
                                              "Payload too large"))
                 ELSE p
  /\ UNCHANGED <<pipeVars, respVars, storeVars, ctxVars, appVars, routerVars, composeVars>>

\* 'end': the text is parsed by content type; JSON.parse may throw.
OnEnd ==
  /\ parse.at = "listening"
  /\ ~parse.destroyed /\ ~parse.aborted /\ ~parse.ended
  /\ parse.toCome = <<>>
  /\ LET p == [parse EXCEPT !.ended = TRUE]
     IN parse' = IF parse.kind = "bad json" /\ parse.totalSize > 0
                 THEN RejectRead(p, NewHttpError(Member(HttpStatus, "BAD_REQUEST"),
                                                 "Invalid JSON in request body"))
                 ELSE ResolveRead(p)
  /\ UNCHANGED <<pipeVars, respVars, storeVars, ctxVars, appVars, routerVars, composeVars>>

\* The client aborts the connection while the body is being read: the platform
\* destroys the raw request with ConnReset; 'error' is emitted on the next tick.
Abort ==
  /\ parse.at = "listening"
  /\ ~parse.destroyed /\ ~parse.aborted /\ ~parse.ended
  /\ parse' = [parse EXCEPT !.aborted = TRUE, !.errorDue = TRUE]
  /\ UNCHANGED <<pipeVars, respVars, storeVars, ctxVars, appVars, routerVars, composeVars>>

\* 'error': the listener is reject.
OnError ==
  /\ parse.errorDue
  /\ parse' = IF ErrorListener THEN RejectRead([parse EXCEPT !.errorDue = FALSE], ConnReset)
              ELSE [parse EXCEPT !.errorDue = FALSE]
  /\ UNCHANGED <<pipeVars, respVars, storeVars, ctxVars, appVars, routerVars, composeVars>>

\* ------------------------------------------------------------ specifications
InitCommon ==
  /\ running = 0
  /\ middlewares = <<>>
  /\ pc = [r \in Reqs |-> "idle"]
  /\ frame = [r \in Reqs |-> NewFrame]
  /\ log = [r \in Reqs |-> <<>>]
  /\ res = [r \in Reqs |-> NewResponse]
  /\ resp = NewResponse
  /\ respCalls = 0
  /\ respAfter = 0
  /\ errCall = NoErrCall
  /\ now = 0
  /\ store = [k \in Keys |-> NoRecord]
  /\ locks = {}
  /\ call = [c \in Callers |-> NoCall]
  /\ limiter = NoLimiter
  /\ requestCounter = 0
  /\ stores = [o \in Tasks |-> NewStore(0, <<"t", 0, 0>>)]
  /\ current = [t \in Tasks |-> NoStore]
  /\ task = [t \in Tasks |-> NoTask]
  /\ obs = [t \in Tasks |-> NoObs]
  /\ routes = <<>>
  /\ matched = NoCallYet
  /\ given = <<>>
  /\ trial = NewTrial("direct")
  /\ direct = NoOutcome
  /\ parse = NoRequest

\* The state after construction, with a MemoryStore of the locking class.
Init == InitCommon /\ variant = "locked" /\ options = [customErrorHandler |-> FALSE, debug |-> FALSE]

\* A MemoryStore of either class, just constructed.
InitStore == InitCommon /\ variant \in Variants /\ options = [customErrorHandler |-> FALSE, debug |-> FALSE]

\* An Application constructed with or without options.errorHandler.
InitApp ==
  InitCommon /\ variant = "locked" /\ options \in [customErrorHandler : BOOLEAN, debug : {FALSE}]

\* An Application, or a handler made by createErrorHandler, with debug set or not.
InitErr ==
  InitCommon /\ variant = "locked" /\ options \in [customErrorHandler : {FALSE}, debug : BOOLEAN]

\* Callers executing one MiddlewareChain concurrently.
Next ==
  \/ Use
  \/ \E r \in Reqs : Execute(r)
  \/ \E r \in Reqs : CallNext(r)
  \/ \E r \in Reqs, e \in Errs : CallNextErr(r, e)
  \/ \E r \in Reqs : Suspend(r)
  \/ \E r \in Reqs : Resume(r)
  \/ \E r \in Reqs : Return(r)
  \/ \E r \in Reqs, e \in Errs : Throw(r, e)
  \/ \E r \in Reqs : AfterMiddleware(r)

Spec == Init /\ [][Next]_vars

\* One Response object driven through its public methods.
NextResp ==
  \/ CallStatus
  \/ CallHeader
  \/ CallRemoveHeader
  \/ CallJson
  \/ CallText
  \/ CallHtml
  \/ CallSend
  \/ CallRedirect
  \/ CallWrite
  \/ CallEnd

SpecResp == Init /\ [][NextResp]_vars

\* The error handlers called on a Response that application code has used.
NextErr ==
  \/ CallStatus
  \/ CallHeader
  \/ CallJson
  \/ CallWrite
  \/ CallEnd
  \/ \E e \in HandlerErrs : CallDefaultErrorHandler(e)
  \/ \E e \in HandlerErrs : CallCreatedErrorHandler(e)
SpecErr == InitErr /\ [][NextErr]_vars

\* Callers of one MemoryStore, the clock and the cleanup timer.
NextStore ==
  \/ \E c \in Callers, key \in Keys : Increment(c, key)
  \/ \E c \in Callers : Observe(c)
  \/ Tick
  \/ Cleanup

SpecStore == InitStore /\ [][NextStore]_vars

\* `await this.locks.get(key)`: once the lock's promise is resolved the waiting
\* call is resumed by the microtask queue.
Resumed == \E c \in Callers, key \in Keys : call[c].pc = "waitLock" /\ Increment(c, key)
SpecStoreFair == SpecStore /\ WF_vars(Resumed)

\* Requests going through one rateLimit middleware with the locking store.
NextLimit ==
  \/ \E max \in Maxes : RateLimit(max)
  \/ \E c \in Callers : Skip(c)
  \/ \E c \in Callers, key \in Keys : limiter.made /\ Increment(c, key)
  \/ \E c \in Callers : Limit(c)
  \/ Tick
  \/ Cleanup
SpecLimit == Init /\ [][NextLimit]_vars

\* Tasks that call context.run concurrently.
NextCtx ==
  \/ \E t \in Tasks : Run(t)
  \/ \E t \in Tasks : CtxSet(t)
  \/ \E t \in Tasks : CtxRead(t)
  \/ \E t \in Tasks : CtxSuspend(t)
  \/ \E t \in Tasks : CtxResume(t)
  \/ \E t \in Tasks : CtxReturn(t)

SpecCtx == Init /\ [][NextCtx]_vars

\* The same, with code that calls set and get outside every run.
NextMeta ==
  \/ NextCtx
  \/ \E t \in Tasks : OutsideSet(t)
  \/ \E t \in Tasks : OutsideRead(t)
SpecMeta == Init /\ [][NextMeta]_vars

\* Requests dispatched by one Application.
NextApp ==
  \/ Use
  \/ \E r \in AppReqs, method \in Methods : HandleRequest(r, method)
  \/ \E r \in AppReqs : AfterParseBody(r)
  \/ \E r \in AppReqs : CallNext(r)
  \/ \E r \in AppReqs, e \in Errs : CallNextErr(r, e)
  \/ \E r \in AppReqs : SendJson(r)
  \/ \E r \in AppReqs : WriteChunk(r)
  \/ \E r \in AppReqs : Suspend(r)
  \/ \E r \in AppReqs : Resume(r)
  \/ \E r \in AppReqs : Return(r)
  \/ \E r \in AppReqs, e \in Errs : Throw(r, e)
  \/ \E r \in AppReqs : AfterMiddleware(r)
  \/ \E r \in AppReqs : AfterChain(r)
  \/ \E r \in AppReqs : AfterValidate(r)
  \/ \E r \in AppReqs : AfterHandler(r)
  \/ \E r \in AppReqs : AfterErrorHandler(r)
SpecApp == InitApp /\ [][NextApp]_vars

\* The continuations of _handleRequest run once what they await has settled,
\* and application code that was invoked terminates.
DispatcherStep ==
  \E r \in AppReqs :
    \/ AfterParseBody(r) \/ AfterMiddleware(r) \/ AfterChain(r)
    \/ AfterValidate(r) \/ AfterHandler(r) \/ AfterErrorHandler(r)
CodeStep ==
  \E r \in AppReqs : Resume(r) \/ Return(r) \/ Throw(r, "e1")
\* An Application with the default error handler, which _handleError calls and
\* which returns without an await; application code raises e1.
InitAppFair ==
  InitCommon /\ variant = "locked" /\ options = [customErrorHandler |-> FALSE, debug |-> FALSE]
NextAppFair ==
  \/ Use
  \/ \E r \in AppReqs, method \in Methods : HandleRequest(r, method)
  \/ \E r \in AppReqs : AfterParseBody(r)
  \/ \E r \in AppReqs : CallNext(r)
  \/ \E r \in AppReqs : CallNextErr(r, "e1")
  \/ \E r \in AppReqs : SendJson(r)
  \/ \E r \in AppReqs : WriteChunk(r)
  \/ \E r \in AppReqs : Suspend(r)
  \/ \E r \in AppReqs : Resume(r)
  \/ \E r \in AppReqs : Return(r)
  \/ \E r \in AppReqs : Throw(r, "e1")
  \/ \E r \in AppReqs : AfterMiddleware(r)
  \/ \E r \in AppReqs : AfterChain(r)
  \/ \E r \in AppReqs : AfterValidate(r)
  \/ \E r \in AppReqs : AfterHandler(r)
SpecAppFair ==
  InitAppFair /\ [][NextAppFair]_vars /\ WF_vars(DispatcherStep) /\ WF_vars(CodeStep)

\* One Router: routes are registered and callers ask it.
NextRouter ==
  \/ \E method \in RouteMethods, path \in RoutePaths : AddRoute(method, path)
  \/ \E methods \in MethodLists, path \in RoutePaths : AddRouteList(methods, path)
  \/ \E method \in RequestMethods, path \in RequestPaths : CallMatch(method, path)
  \/ \E path \in RequestPaths : CallGetAllowedMethods(path)
SpecRouter == Init /\ [][NextRouter]_vars

\* The middlewares m1..mn executed directly, and then as compose(m1..mn).
\* One request body read by parseBody.
NextBody ==
  \/ \E maxBodySize \in BodyLimits, sizes \in SeqsUpTo(ChunkSizes, MaxChunks), kind \in BodyKinds :
       NewRequest(maxBodySize, sizes, kind)
  \/ ParseBody
  \/ OnData
  \/ OnEnd
  \/ Abort
  \/ OnError
SpecBody == Init /\ [][NextBody]_vars
\* Events the platform has queued are delivered.
SpecBodyFair == SpecBody /\ WF_vars(OnError)

NextCompose ==
  \/ \E script \in Scripts : Give(script)
  \/ ExecuteDirect
  \/ ExecuteComposed
  \/ Operate
  \/ \E i \in 1..MaxCompose : Continue(i)
  \/ \E i \in 1..MaxCompose : Fire(i)
  \/ TrialAfterMiddleware
SpecCompose == Init /\ [][NextCompose]_vars

\* -------------------------------------------------------------------- claims
Invocations(r) == 1..Len(log[r])
IsMw(v) == v.who \in {"global", "route"}
Done(r) == pc[r] = "done"

\* An invocation that called next() exactly once and surfaced no error.
ProceededOnce(v) == v.calls = 1 /\ v.errs = {}
\* An invocation that completed without ever calling next.
Halted(v) == v.settled /\ v.calls = 0 /\ v.errs = {}

\* C1: when every middleware calls proceed() exactly once, execute invokes the
\* middlewares at index 0 .. n-1 in insertion order, each exactly once: the k-th
\* invocation is of index k-1, and when execute has settled all n have run.
C1_InsertionOrder ==
  \A r \in Reqs :
    (frame[r].mode = "direct"
       /\ \A k \in Invocations(r) : log[r][k].settled => ProceededOnce(log[r][k]))
    => /\ \A k \in Invocations(r) : log[r][k].idx = k - 1
       /\ Done(r) => /\ Len(log[r]) = Len(middlewares)
                     /\ frame[r].result = Resolved

C1_Witness ==
  \E r \in Reqs :
    /\ Done(r) /\ frame[r].mode = "direct"
    /\ Len(log[r]) = MaxMw
    /\ \A k \in Invocations(r) : ProceededOnce(log[r][k])

\* C2: a middleware that completes without ever calling proceed() is the last
\* one invoked, and execute resolves normally.
C2_HaltStopsChain ==
  \A r \in Reqs : \A k \in Invocations(r) :
    (frame[r].mode = "direct" /\ Halted(log[r][k]))
    => /\ k = Len(log[r])
       /\ Done(r) => frame[r].result = Resolved

C2_Witness ==
  \E r \in Reqs :
    /\ Done(r) /\ frame[r].mode = "direct"
    /\ Len(log[r]) > 0
    /\ Halted(LastOf(log[r]))
    /\ LastOf(log[r]).idx + 1 < Len(middlewares)

\* C3: a middleware that surfaces an error, by throwing or through
\* proceed(error), is the last one invoked, and execute rejects with the error
\* it surfaced.
C3_ErrorStopsChain ==
  \A r \in Reqs : \A k \in Invocations(r) :
    (frame[r].mode = "direct" /\ log[r][k].settled /\ log[r][k].errs # {})
    => /\ k = Len(log[r])
       /\ Done(r) => /\ frame[r].result.kind = "rejected"
                     /\ frame[r].result.err \in log[r][k].errs

C3_Witness ==
  \E r \in Reqs :
    /\ Done(r) /\ frame[r].mode = "direct"
    /\ Len(log[r]) > 0
    /\ LastOf(log[r]).errs = {"e2"}
    /\ frame[r].result = Rejected("e2")
    /\ LastOf(log[r]).idx + 1 < Len(middlewares)

\* C4: execute decides only when the middleware has completed: a middleware
\* that suspends, then calls proceed() once and completes is followed by the
\* next middleware, and no middleware is started while an earlier one has not
\* completed.
C4_AwaitsCompletion ==
  \A r \in Reqs : frame[r].mode = "direct" =>
    /\ \A k \in Invocations(r) : k < Len(log[r]) => log[r][k].settled
    /\ \A k \in Invocations(r) :
         (/\ log[r][k].waited /\ log[r][k].settled /\ ProceededOnce(log[r][k])
          /\ log[r][k].idx + 1 < Len(middlewares)
          /\ ~(k = Len(log[r]) /\ pc[r] = "awaited"))
         => /\ k < Len(log[r])
            /\ log[r][k + 1].idx = log[r][k].idx + 1

C4_Witness ==
  \E r \in Reqs :
    /\ frame[r].mode = "direct"
    /\ Len(log[r]) = 2
    /\ log[r][1].waited /\ ProceededOnce(log[r][1])
    /\ pc[r] = "wait"

\* C8: each execution has one current-middleware index of its own: while a
\* middleware of a request is running or suspended, the request's currentIndex
\* is that middleware's index, and a step taken by another request changes
\* neither the request's locals (index, error, currentIndex) nor what it has run.
C8_OwnIndex ==
  /\ [](\A q \in Reqs :
          (frame[q].mode = "direct" /\ pc[q] \in {"run", "wait", "awaited"})
          => /\ LastOf(log[q]).idx = frame[q].currentIndex
             /\ frame[q].index >= frame[q].currentIndex)
  /\ [][\A q \in Reqs :
          /\ (running # q /\ pc'[q] = pc[q])
             => (frame'[q] = frame[q] /\ log'[q] = log[q])
          /\ pc[q] = "wait"
             => (frame'[q] = frame[q] /\ log'[q] = log[q])]_vars

C8_Witness ==
  /\ pc[1] = "wait" /\ pc[2] = "wait"
  /\ frame[1].mode = "direct" /\ frame[2].mode = "direct"
  /\ frame[1].currentIndex = 1 /\ frame[2].currentIndex = 0
  /\ frame[1].index = 2 /\ frame[2].index = 0

\* The place of an invocation in the order of dispatch.
Rank(who) ==
  IF who = "global" THEN 0 ELSE IF who = "route" THEN 1
  ELSE IF who = "handler" THEN 2 ELSE 3
IndicesOf(r, who) == {log[r][i].idx : i \in {j \in Invocations(r) : log[r][j].who = who}}

C6_FinishedStops ==
  /\ [][\A r \in AppReqs :
          (pc[r] = "chainSettled" /\ Finished(res[r]) /\ pc'[r] # pc[r]) =>
            /\ pc'[r] = "done"
            /\ res'[r] = res[r]
            /\ log'[r] = log[r]
            /\ ~frame'[r].fallback
            /\ \A i \in Invocations(r) : IsMw(log[r][i])
            /\ \A k \in 1..Len(res[r].raw.sent) : IsMw(res[r].raw.sent[k].data)]_vars
  /\ [][\A r \in AppReqs :
          Done(r) => (Done(r)' /\ res'[r] = res[r] /\ log'[r] = log[r])]_vars

C6_Witness ==
  /\ Done(1)
  /\ Len(middlewares) = 2
  /\ frame[1].chain = "global" /\ frame[1].result = Resolved
  /\ Finished(res[1])
  /\ Len(log[1]) = 1 /\ Halted(log[1][1])
  /\ res[1].raw.sent = <<Stringify([who |-> "global", idx |-> 0, text |-> "o1", str |-> FALSE])>>

\* C7: with two run() invocations in flight and interleaved at their awaits,
\* every read made inside a run returns that run's own id, request, response and
\* metadata, and the two runs' ids differ.
C7_OwnContext ==
  /\ \A t \in Tasks :
       obs[t].made => /\ obs[t].id = task[t].id
                      /\ obs[t].req = t
                      /\ obs[t].res = t
                      /\ obs[t].meta = obs[t].own
  /\ \A t, u \in Tasks :
       (t # u /\ task[t].pc # "idle" /\ task[u].pc # "idle") => task[t].id # task[u].id

C7_Witness ==
  /\ task[1].pc = "wait" /\ task[2].pc = "run"
  /\ task[1].meta["user"] = "x" /\ task[2].meta["user"] = "y"
  /\ obs[1].made /\ obs[1].meta["user"] = "x"
  /\ obs[2].made /\ obs[2].meta["user"] = "y"

\* The calls of increment made on key k in the window that ends at t, and those
\* of them whose caller has read the returned value.
Made(k, t) ==
  {c \in Callers : /\ call[c].pc \in {"returned", "read"}
                   /\ call[c].key = k /\ call[c].ret.val.resetTime = t}
HaveRead(k, t) ==
  {c \in Callers : call[c].pc = "read" /\ call[c].key = k /\ call[c].seen.resetTime = t}

\* C9: increments on one key are serialized: the calls made on a key within one
\* window return pairwise different counts, all within 1 .. N for the N calls
\* made, and the stored count is N.
C9_Serialized ==
  \A k \in Keys :
    /\ \A c \in Callers : call[c].pc = "read" /\ call[c].key = k =>
         LET t == call[c].seen.resetTime
         IN /\ call[c].seen.count \in 1..Cardinality(Made(k, t))
            /\ \A d \in HaveRead(k, t) : d # c => call[d].seen.count # call[c].seen.count
    /\ store[k] # NoRecord => store[k].count = Cardinality(Made(k, store[k].resetTime))

\* C10: the state of a Response only moves forward: headersSent and finished,
\* and the flags behind them, never go from true to false, and a finished
\* response has its headers sent.
C10_Monotonic ==
  /\ [](Finished(resp) => HeadersSent(resp))
  /\ [][/\ HeadersSent(resp) => HeadersSent(resp')
        /\ Finished(resp) => Finished(resp')
        /\ resp.p_headersSent => resp'.p_headersSent
        /\ resp.p_finished => resp'.p_finished]_vars

C10_Witness ==
  /\ Finished(resp) /\ HeadersSent(resp)
  /\ Len(resp.raw.sent) = 2
  /\ respAfter >= 2

C12_ContextBound ==
  \A r \in AppReqs :
    pc[r] = "run" => /\ GetStore(r) # NoStore
                     /\ GetRequest(r) = r
                     /\ GetResponse(r) = r

\* ---- what the route patterns mean, read by segments

\* The segments of a path: the runs of characters between its slashes.
RECURSIVE Segments(_, _)
Segments(p, cur) ==
  IF p = <<>> THEN (IF cur = <<>> THEN <<>> ELSE <<cur>>)
  ELSE IF p[1] = "/" THEN (IF cur = <<>> THEN <<>> ELSE <<cur>>) \o Segments(Tail(p), <<>>)
  ELSE Segments(Tail(p), Append(cur, p[1]))
SegmentsOf(p) == Segments(p, <<>>)

IsWildcard(seg) == seg = <<"*">>
IsOptional(seg) == Len(seg) > 2 /\ seg[1] = ":" /\ seg[Len(seg)] = "?"
IsCapture(seg) == Len(seg) > 1 /\ seg[1] = ":" /\ seg[Len(seg)] # "?"
IsLiteral(seg) == ~IsWildcard(seg) /\ seg[1] # ":"
CaptureName(seg) == IF IsOptional(seg) THEN SubSeq(seg, 2, Len(seg) - 1) ELSE Tail(seg)
\* A path with its letters in lower case
ToLowerCase(ch) == IF ch = "U" THEN "u" ELSE ch
Lower(p) == [k \in 1..Len(p) |-> ToLowerCase(p[k])]

\* A pattern of literal segments only, and one of literal and capture segments
\* with at least one capture.
IsStatic(pattern) == \A k \in 1..Len(SegmentsOf(pattern)) : IsLiteral(SegmentsOf(pattern)[k])
IsCapturePattern(pattern) ==
  LET segs == SegmentsOf(pattern)
  IN /\ \A k \in 1..Len(segs) : IsLiteral(segs[k]) \/ IsCapture(segs[k])
     /\ \E k \in 1..Len(segs) : IsCapture(segs[k])

\* Whether the segments ps of a pattern can stand for the segments xs of a
\* path, under the most generous reading: literals compared without case, a
\* capture for one segment, an optional capture for one or none, a wildcard for
\* whatever is left.
RECURSIVE Covers(_, _)
Covers(ps, xs) ==
  IF ps = <<>> THEN xs = <<>>
  ELSE IF IsWildcard(ps[1]) THEN TRUE
  ELSE IF IsOptional(ps[1])
  THEN Covers(Tail(ps), xs) \/ (xs # <<>> /\ Covers(Tail(ps), Tail(xs)))
  ELSE IF xs = <<>> THEN FALSE
  ELSE IF IsCapture(ps[1]) THEN Covers(Tail(ps), Tail(xs))
  ELSE Lower(ps[1]) = Lower(xs[1]) /\ Covers(Tail(ps), Tail(xs))
PatternCovers(pattern, path) == Covers(SegmentsOf(pattern), SegmentsOf(NormalizePath(path)))

RouteIndices == 1..Len(routes)

\* C13: when a static route and a capture route of one method both match a
\* path, match returns the static route, whichever was registered first.
C13_StaticWins ==
  \A i, j \in RouteIndices : \A p \in RequestPaths :
    (/\ routes[i].method = routes[j].method
     /\ IsStatic(routes[i].path) /\ routes[i].path = NormalizePath(p)
     /\ IsCapturePattern(routes[j].path)
     /\ MatchPath(routes[j].path, NormalizePath(p)).ok)
      => Match(routes, routes[i].method, p).path = routes[i].path

\* C14: when the path has routes for other methods but none for the requested
\* one, the allowed methods reported for the path are the methods of the routes
\* registered for it, each once (the routes being pairwise different).
C14_AllowedMethodsExact ==
  \A m \in RequestMethods : \A p \in RequestPaths :
    (/\ \A a, b \in RouteIndices : a # b => routes[a] # routes[b]
     /\ ~Match(routes, m, p).found
     /\ HasPath(routes, p)) =>
      LET allowed == GetAllowedMethods(routes, p)
      IN /\ \A a, b \in 1..Len(allowed) : a # b => allowed[a] # allowed[b]
         /\ {allowed[a] : a \in 1..Len(allowed)} =
              {routes[i].method :
                 i \in {k \in RouteIndices :
                          MatchPath(routes[k].path, NormalizePath(p)).ok}}

ExpectedParams(pattern, path) ==
  LET ps == SegmentsOf(pattern)
      xs == SegmentsOf(path)
  IN {[name |-> CaptureName(ps[k]), value |-> xs[k]] :
        k \in {n \in 1..Len(ps) : IsCapture(ps[n])}}
SameShape(pattern, path) ==
  LET ps == SegmentsOf(pattern)
      xs == SegmentsOf(path)
  IN /\ Len(ps) = Len(xs)
     /\ \A k \in 1..Len(ps) : IsLiteral(ps[k]) => ps[k] = xs[k]

C17_CaseInsensitive ==
  \A i \in RouteIndices : \A p \in RequestPaths :
    (IsStatic(routes[i].path) /\ Lower(NormalizePath(p)) = Lower(routes[i].path))
      => Match(routes, routes[i].method, p).found

\* C18: for every method and path p, match gives the same for p and for p
\* followed by a slash.
C18_TrailingSlash ==
  \A m \in RequestMethods : \A p \in RequestPaths :
    Match(routes, m, p) = Match(routes, m, Append(p, "/"))

C18_Witness ==
  /\ Len(routes) >= 1
  /\ routes[1].path = <<"/", "u">>
  /\ matched.op = "match" /\ matched.path = <<"/", "u", "/">>
  /\ matched.result.found /\ matched.result.index = 1

\* C19: a route whose pattern ends in an optional capture matches the path
\* without that segment, the capture absent, and the path with it, the capture
\* holding the segment.
C19_OptionalCapture ==
  \A i \in RouteIndices :
    routes[i].path = <<"/", "u", "/", ":", "i", "?">> =>
      /\ MatchPath(routes[i].path, <<"/", "u">>).ok
      /\ \A e \in MatchPath(routes[i].path, <<"/", "u">>).params : e.value = <<>>
      /\ MatchPath(routes[i].path, <<"/", "u", "/", "1">>) =
           Params({[name |-> <<"i">>, value |-> <<"1">>]})

\* C20: a route with a trailing wildcard matches every path below its prefix
\* and its params hold the rest of the path under the key '*'.
C20_Wildcard ==
  \A i \in RouteIndices : \A p \in RequestPaths :
    (/\ routes[i].path = <<"/", "f", "/", "*">>
     /\ Len(p) > 3 /\ SubSeq(p, 1, 3) = <<"/", "f", "/">>)
      => LET got == MatchPath(routes[i].path, NormalizePath(p))
         IN /\ got.ok
            /\ [name |-> <<"*">>, value |-> SubSeq(NormalizePath(p), 4, Len(NormalizePath(p)))]
                 \in got.params

\* ------------------------------------------------------------------------ C21
\* C21: addRoute called with a list of k distinct methods does not fail for a
\* well-formed pattern and registers one route per method: the call does not
\* throw, the number of routes grows by k, and match finds the pattern under
\* each of the k methods.
C21_OneRoutePerMethod ==
  [][\A methods \in MethodLists, path \in RoutePaths :
       AddRouteList(methods, path) =>
         /\ ~matched'.threw
         /\ Len(routes') = Len(routes) + Len(methods)
         /\ \A k \in 1..Len(methods) : Match(routes', methods[k], path) # Null]_vars

\* ------------------------------------------------------------------------ C22
\* C22: a chain containing compose(m1..mn) behaves as the chain containing
\* m1..mn directly: once both executions have come to rest, the same
\* middlewares have run in the same order and execute has settled the same
\* way (resolved, or rejected with the same error).
C22_ComposeEquivalent ==
  (trial.mode = "composed" /\ Quiet(trial, given)) =>
     /\ trial.order = direct.order
     /\ trial.result = direct.result

\* ------------------------------------------------------------------------ C23
\* The composed middlewares that have called their next (with or without an
\* argument).
CalledNext(i) ==
  \E k \in 1..trial.acts[i].pos : given[i][k] \in {"next", "nextErr", "awaitNext"}

\* C23: compose(m1..mn) invokes m1..mn in the given order and calls the outer
\* next exactly once, only after the last composed middleware has called its
\* next: the middlewares invoked so far are m1..mk in this order, the outer
\* next is never called twice, it has been called if and only if every
\* composed middleware has called its next, and compose() of no middlewares
\* has called it once it is invoked.
C23_OuterNextOnce ==
  trial.mode = "composed" =>
     /\ trial.order = [k \in 1..Len(trial.order) |-> k]
     /\ trial.outer <= 1
     /\ trial.outer = 1 <=> \A i \in 1..Len(given) : CalledNext(i)

\* All of three composed middlewares have called next, one of them after a
\* suspension, and the outer next has been called.
C23_Witness ==
  /\ trial.mode = "composed"
  /\ Len(given) = 3
  /\ \E i \in 1..3 : given[i] = <<"wait", "next">>
  /\ \A i \in 1..3 : CalledNext(i)
  /\ trial.outer = 1

\* compose() of no middlewares has been executed and the outer next called.
C23_WitnessEmpty ==
  trial.mode = "composed" /\ given = <<>> /\ trial.outer = 1 /\ trial.at = "done"

\* ------------------------------------------------------------- C24 .. C29
\* The configured error handler was called and threw.
HandlerThrew(r) ==
  \E i \in Invocations(r) :
    log[r][i].who = "errorHandler" /\ log[r][i].settled /\ log[r][i].errs # {}

\* What the code named who has put on the wire for request r.
SentBy(r, who) ==
  {k \in 1..Len(res[r].raw.sent) : res[r].raw.sent[k].data.who = who}

\* The error was answered by the default handler alone: it is the configured
\* handler, or the configured handler threw before it sent anything.
DefaultAnswered(r) ==
  /\ Done(r)
  /\ frame[r].handled # NoErr
  /\ ~options.customErrorHandler \/ (HandlerThrew(r) /\ SentBy(r, "errorHandler") = {})

\* C24: every error raised in a dispatcher stage is passed to the configured
\* error handler: when dispatch has ended, the error the catch block received
\* is the error the handler was called with, and an error a middleware or the
\* route's handler threw or passed to next is one the handler was called with.
C24_ErrorsFunnel ==
  \A r \in AppReqs :
    Done(r) =>
      /\ frame[r].raised # NoErr => frame[r].handled = frame[r].raised
      /\ \A i \in Invocations(r) :
           (log[r][i].who # "errorHandler" /\ log[r][i].errs # {})
             => frame[r].handled \in log[r][i].errs

MethodsNamed(v) ==
  CASE v = "" -> {}
    [] v = "GET" -> {"GET"}
    [] v = "POST" -> {"POST"}
    [] v = "GET, POST" -> {"GET", "POST"}
    [] v = "POST, GET" -> {"GET", "POST"}
    [] OTHER -> {"?"}
Elements(s) == {s[k] : k \in 1..Len(s)}

FirstInvalid(schema, invalid) ==
  CHOOSE k \in 1..Len(SchemaParts) :
    /\ SchemaParts[k] \in schema \cap invalid
    /\ \A j \in 1..(k - 1) : SchemaParts[j] \notin schema \cap invalid

HandlerCompleted(r) ==
  \E i \in Invocations(r) :
    log[r][i].who = "handler" /\ log[r][i].settled /\ log[r][i].errs = {}

SentByHandler ==
  {resp.raw.sent[k] : k \in (Len(errCall.before.raw.sent) + 1)..Len(resp.raw.sent)}

\* C26: an error handler called on a finished response writes nothing: the
\* Response object and the raw response (status, headers, what was sent) are
\* as before the call.  This holds for the application's default handler and
\* for the handler createErrorHandler returns.
C26_NoWriteOnceFinished ==
  (errCall.handler # "none" /\ Finished(errCall.before)) => resp = errCall.before

\* The default handler was called on a response that was ended on the raw
\* response, by the handler createErrorHandler returns.
C26_Witness ==
  /\ errCall.handler = "defaultErrorHandler"
  /\ Finished(errCall.before)
  /\ ~errCall.before.p_finished
  /\ resp.raw.sent = <<JSONStringify(ErrorBody("createErrorHandler", "e1", options.debug))>>

\* C30 as stated: for an error that is no HttpError the client receives status
\* 500, with a body that has neither message nor stack unless debug is set.
C30_Status500NoInternals ==
  (errCall.handler = "defaultErrorHandler" /\ errCall.error \notin HttpErrs
     /\ ~Finished(errCall.before)) =>
    /\ resp.raw.statusCode = INTERNAL_SERVER_ERROR
    /\ ~options.debug =>
         \A item \in SentByHandler : item.data.message = Absent /\ item.data.stack = Absent

\* C30, amended: for an error that is no HttpError, what an error handler
\* sends has neither message nor stack unless debug is set, and the client
\* receives status 500 with it if no header had been sent before the handler
\* was called; a status that is already out stays.
C30_NoInternalsUnlessDebug ==
  (errCall.handler # "none" /\ errCall.error \notin HttpErrs) =>
    /\ ~options.debug =>
         \A item \in SentByHandler : item.data.message = Absent /\ item.data.stack = Absent
    /\ ~HeadersSent(errCall.before) =>
         /\ resp.raw.statusCode = INTERNAL_SERVER_ERROR
         /\ Cardinality(SentByHandler) = 1
         /\ resp.raw.writableEnded
    /\ HeadersSent(errCall.before) => resp.raw.statusCode = errCall.before.raw.statusCode

\* The default handler answered e1 without debug: 500 and the fixed text only.
C30_Witness ==
  /\ errCall.handler = "defaultErrorHandler"
  /\ errCall.error = "e1"
  /\ ~options.debug
  /\ resp.raw.statusCode = INTERNAL_SERVER_ERROR
  /\ resp.raw.sent = <<Stringify([who |-> "defaultErrorHandler", idx |-> 500, str |-> FALSE,
                                   text |-> "Internal Server Error", details |-> Absent,
                                   message |-> Absent, stack |-> Absent])>>

\* ------------------------------------------------------------- C31, C32
\* C31: when the bytes received exceed the configured maximum, the read is
\* aborted at that point (the raw request is destroyed, chunks still to come
\* or not), and the promise of parseBody is rejected with an HttpError whose
\* status is a 4xx number.
C31_TooLargeAborts ==
  OverLimit(parse.totalSize, parse.maxBodySize) =>
    /\ parse.destroyed
    /\ parse.result = "rejected"
    /\ parse.error.name = "HttpError"
    /\ parse.error.statusCode.defined
    /\ parse.error.statusCode.value \in 400..499

Decided(k, t) ==
  {c \in Callers : /\ limiter.verdict[c].counted
                   /\ call[c].key = k
                   /\ call[c].seen.resetTime = t}

\* C33: with limit max, a request is throttled exactly when the count the
\* store returned for its key exceeds max.  Within one window of a key the
\* counts are the order of arrival, so the requests with counts 1..max are
\* passed on and every later one is rejected with status 429 and a
\* Retry-After header whose number is the seconds from the decision to the
\* reset time, rounded up; a request passed on carries no Retry-After.
C33_ThrottledOverMax ==
  \A c \in Callers :
    LET v == limiter.verdict[c]
    IN v.counted =>
         /\ v.kind = "throttled" <=> call[c].seen.count > limiter.max
         /\ v.kind = "passed" <=> call[c].seen.count \in 1..limiter.max
         /\ \A d \in Decided(call[c].key, call[c].seen.resetTime) :
              d # c => call[d].seen.count # call[c].seen.count
         /\ v.kind = "throttled" =>
              /\ v.status = 429
              /\ v.retryAfter.set
              /\ v.retryAfter.value = Ceil(call[c].seen.resetTime - v.at, 1000)
              /\ v.retryAfter.value * 1000 >= call[c].seen.resetTime - v.at
         /\ v.kind = "passed" => ~v.retryAfter.set

\* max = 2 and three requests on k1 within one window: two passed, the third
\* throttled with Retry-After 1.
C33_Witness ==
  /\ limiter.max = 2
  /\ \A c \in Callers : limiter.verdict[c].counted /\ call[c].key = "k1"
  /\ \A c \in Callers : call[c].seen.resetTime = call[1].seen.resetTime
  /\ Cardinality({c \in Callers : limiter.verdict[c].kind = "passed"}) = 2
  /\ \E c \in Callers : /\ limiter.verdict[c].kind = "throttled"
                        /\ call[c].seen.count = 3
                        /\ limiter.verdict[c].retryAfter = [set |-> TRUE, value |-> 1]

\* ------------------------------------------------------------------ C34
\* C34: a record is created with count 1 and reset time now + windowMs on the
\* first hit of its key; a hit no later than the reset time adds one to the
\* count and keeps the reset time; the first hit after the reset time stores
\* count 1 with a new, later reset time; the only other change is the sweep
\* deleting a record whose reset time has passed.  The call that made the
\* change returns the record it stored.
C34_RecordLifecycle ==
  [][\A k \in Keys :
       /\ store'[k] # store[k] =>
            \/ /\ store[k] = NoRecord
               /\ store'[k] = [count |-> 1, resetTime |-> now + WindowMs]
            \/ /\ store[k] # NoRecord /\ now <= store[k].resetTime
               /\ store'[k] = [count |-> store[k].count + 1, resetTime |-> store[k].resetTime]
            \/ /\ store[k] # NoRecord /\ now > store[k].resetTime
               /\ store'[k] = [count |-> 1, resetTime |-> now + WindowMs]
               /\ store'[k].resetTime > store[k].resetTime
            \/ /\ store[k] # NoRecord /\ now > store[k].resetTime
               /\ store'[k] = NoRecord
       /\ \A c \in Callers :
            (call[c].pc # "returned" /\ call'[c].pc = "returned" /\ call'[c].key = k)
              => /\ call'[c].ret.val = store'[k]
                 /\ store'[k].count >= 1]_vars

\* On k1: a first hit, a second hit within the window, and a hit after the
\* reset time that got count 1 with a later reset time.
C34_Witness ==
  \E a, b, c \in Callers :
    /\ call[a].key = "k1" /\ call[b].key = "k1" /\ call[c].key = "k1"
    /\ call[a].pc = "read" /\ call[b].pc = "read" /\ call[c].pc = "read"
    /\ call[a].seen.count = 1 /\ call[b].seen.count = 2
    /\ call[a].seen.resetTime = call[b].seen.resetTime
    /\ call[c].seen.count = 1
    /\ call[c].seen.resetTime > call[b].seen.resetTime
    /\ store["k1"] = call[c].seen
    /\ variant = "locked"

\* ------------------------------------------------------------------ C35
\* C35: get(key) inside a run returns what that run itself has set for key
\* (undefined if it has set nothing, whatever other runs have set); get(key)
\* outside every run returns undefined; and set called with no store bound
\* leaves every store as it was.
C35_MetadataScoped ==
  /\ [](\A t \in Tasks :
          obs[t].made =>
            /\ obs[t].inside => obs[t].meta = obs[t].own
            /\ ~obs[t].inside => \A k \in MetaKeys : obs[t].meta[k] = Absent)
  /\ [][\A t \in Tasks : task'[t].tried # task[t].tried => stores' = stores]_vars

\* Run 1 completed having set "x"; after it "y" was set outside every run and
\* a read outside returned undefined; run 2 read undefined inside its run.
C35_Witness ==
  /\ task[1].meta["user"] = "x"
  /\ task[1].pc = "done"
  /\ task[1].tried = {"y"}
  /\ obs[1].made /\ ~obs[1].inside /\ obs[1].meta["user"] = Absent
  /\ obs[2].made /\ obs[2].inside /\ obs[2].meta["user"] = Absent
  /\ task[2].pc # "idle"

\* ------------------------------------------------------------------ C36
\* What invocation i of request r has put on the wire.
SentByInvocation(r, i) ==
  {k \in 1..Len(res[r].raw.sent) :
     /\ res[r].raw.sent[k].data.who = log[r][i].who
     /\ res[r].raw.sent[k].data.idx = log[r][i].idx}

\* this.middlewares.length of the chain an invocation belongs to
ChainLengthOf(r, who) ==
  IF who = "route" THEN frame[r].route.middleware ELSE Len(middlewares)

\* C36: when a middleware both finishes the response (res.json) and calls
\* next(), the chain does not halt: once execute has gone on, the middleware
\* after it in the chain has been invoked; and whatever a later middleware
\* sends on the finished response is ignored: the wire holds the one body the
\* first sender sent, and the response object stays as it was.
C36_ChainGoesOn ==
  /\ [](\A r \in AppReqs : \A i \in Invocations(r) :
          LET v == log[r][i]
          IN (IsMw(v) /\ v.sends > 0 /\ v.calls = 1 /\ v.errs = {} /\ v.settled
                /\ \A h \in 1..(i - 1) : log[r][h].sends = 0) =>
               /\ (v.idx + 1 < ChainLengthOf(r, v.who)
                     /\ ~(i = Len(log[r]) /\ pc[r] = "awaited"))
                    => /\ Len(log[r]) > i
                       /\ log[r][i + 1].who = v.who
                       /\ log[r][i + 1].idx = v.idx + 1
               /\ SentByInvocation(r, i) = {1}
               /\ Len(res[r].raw.sent) = 1
               /\ \A j \in Invocations(r) : j > i => SentByInvocation(r, j) = {})
  /\ [][\A r \in AppReqs : Finished(res[r]) => res'[r] = res[r]]_vars

\* The first global middleware sent and called next(); the second ran and sent
\* too; the client got the first one's body only.
C36_Witness ==
  /\ Len(log[1]) = 2
  /\ log[1][1].who = "global" /\ log[1][1].idx = 0
  /\ log[1][1].sends = 1 /\ log[1][1].calls = 1
  /\ log[1][2].who = "global" /\ log[1][2].idx = 1
  /\ log[1][2].sends = 1 /\ log[1][2].settled
  /\ res[1].raw.sent =
       <<Stringify([who |-> "global", idx |-> 0, text |-> "o1", str |-> FALSE])>>

\* ------------------------------------------------------------------ C37
\* C37: calling next() more than once inside one middleware never causes a
\* later middleware to be skipped: the middlewares invoked are those at index
\* 0, 1, 2, ... in order, each once, and an execute that ends with no error
\* after every invoked middleware has called next() has invoked all of them.
C37_NoSkip ==
  \A r \in Reqs :
    /\ \A i \in Invocations(r) : log[r][i].idx = i - 1
    /\ (Done(r) /\ frame[r].result = Resolved
          /\ \A i \in Invocations(r) : log[r][i].calls >= 1 /\ log[r][i].errs = {})
         => Len(log[r]) = Len(middlewares)

C40_LockReleased ==
  /\ []((\A c \in Callers : call[c].pc # "waitLock") => locks = {})
  /\ [][\A c \in Callers :
         (call[c].pc = "idle" /\ call'[c].pc # "idle") => call'[c].pc = "returned"]_vars
  /\ \A c \in Callers : (call[c].pc = "waitLock") ~> (call[c].pc = "returned")

\* Three calls on one key made before any caller has resumed, with the locking store.
C40_Witness ==
  /\ variant = "locked"
  /\ \A c \in Callers : call[c].pc = "returned" /\ call[c].key = "k1"
  /\ store["k1"].count = 3
  /\ locks = {}
====
